---- MODULE Spec2Model ----
(***************************************************************************)
(* Model of the feather-engine runtime (runtime.c, scene.c, controller.c,  *)
(* physics.c): the fixed-step main loop, the layer scheduler and the       *)
(* controller dispatch.  Lists are tllist lists: push_front prepends,      *)
(* tll_foreach walks the nodes that were linked when the walk started.     *)
(***************************************************************************)
EXTENDS Integers, Sequences, FiniteSets, TLC

(* ------------------------------ bounds -------------------------------- *)
MaxTime == 30        \* the clock (SDL_GetTicks) is advanced up to this value
MaxEvents == 2       \* input events polled in a whole run
MaxLayers == 5       \* layer names handed out in a whole run
MaxCtrls == 3        \* controller ids handed out in a whole run
MaxForces == 3       \* forces appended to the physics body in a whole run
MaxRects == 2        \* drawables an init layer creates
MaxCoord == 2        \* positions of the boxes given to checkCollision: 0..MaxCoord
MaxSpeed == 2        \* speeds and speed limits given to vAppendForce: -1..MaxSpeed

(* ------------------------- program constants -------------------------- *)
FEATHER_MS_PER_UPDATE == 10

NoScene == 0                      \* tRun->sScene == NULL
Scenes == {1, 2}
OtherScene(sc) == 3 - sc

\* err.h: the macros expand textually, so -errSDL_ERR is -6000 + 1.
ERR_OFFSET == 6000
RetNoScene == (0 - ERR_OFFSET) + 0
RetSdlErr == (0 - ERR_OFFSET) + 1

(* SDL event types that SDL_PollEvent delivers; controllers subscribe to   *)
(* these or to USEREVENT, which is never polled.                           *)
PolledTypes == {"KEYDOWN", "KEYUP", "QUIT"}
NoEvent == [type |-> "NONE", serial |-> 0, sym |-> "NONE", repeat |-> 0]
\* What the environment queues: the type, and for a key event the key
\* (key.keysym.sym) and whether it is an auto-repeat (key.repeat).
KeyEvent(t, sym, r) == [type |-> t, sym |-> sym, repeat |-> r]
PlainKinds ==
    {KeyEvent("KEYDOWN", "W", 0), KeyEvent("KEYUP", "W", 0), KeyEvent("QUIT", "NONE", 0)}
KeyKinds ==
    PlainKinds \cup {KeyEvent("KEYDOWN", "W", 1), KeyEvent("KEYDOWN", "S", 0)}

(* User callables.  A layer body (fRun) and a controller handler (fHnd)   *)
(* are arbitrary user code; the model gives each a kind that fixes which   *)
(* engine calls it makes.  Layer bodies: "noop", "addPos", "addNeg"        *)
(* (register a new layer of priority 1 / -1), "mkCtrl" (create a           *)
(* controller, as the init layers of the examples do), "sleep" (a        *)
(* vFeatherSleepLayerMs clause on the own name), "animate" / "calm" (when  *)
(* the direction changed, unsleep with true / false; then a                *)
(* vFeatherSleepThisLayerMs clause; then note the direction).  Handlers:   *)
(* "turn" (change the direction), "phys" (the physics controller),       *)
(* "fly" (append a force to the physics body; a layer body "physInit"      *)
(* sets that body up), "noop", "rearm"   *)
(* (set the own pending flag), "slow" (take a millisecond), "swap" (swap   *)
(* to the other scene, then remove the own id from the now active scene,  *)
(* as vStartGame does), "setDelay" (set the own delay to DelayB),          *)
(* "respawn" (remove the own controller from the active scene and create   *)
(* a successor with the same subscription and handler).                    *)
DelayB == 10                       \* the delay a "setDelay" handler sets
SleepMs == 5                       \* the ms a sleeping layer body asks for

\* Milliseconds between two readings of the clock at the top of the loop.
FrameTimes == {0, 5, 10, 20}

Min(a, b) == IF a < b THEN a ELSE b

(* ------------------------------ layers -------------------------------- *)
\* tLayer, as built by the FEATHER_LAYER constructor.
tLayer(name, prio, body) ==
    [sName |-> name, iPriority |-> prio, uLastSleep |-> 0, fRun |-> body]

bLayerCmpFlipped(l1, l2) == l1.iPriority > l2.iPriority
bLayerCmp(l1, l2) == l1.iPriority < l2.iPriority

\* tll_sort(list, cmp): the list ordered so that cmp holds from the front
\* to the back; elements that cmp does not order keep their relative order.
RECURSIVE InsertSorted(_, _)
InsertSorted(s, l) ==
    IF s = <<>> THEN <<l>>
    ELSE IF bLayerCmp(l, Head(s)) THEN <<l>> \o s
    ELSE <<Head(s)>> \o InsertSorted(Tail(s), l)

RECURSIVE tll_sort(_)
tll_sort(s) ==
    IF s = <<>> THEN <<>>
    ELSE InsertSorted(tll_sort(SubSeq(s, 1, Len(s) - 1)), s[Len(s)])

tll_push_front(s, x) == <<x>> \o s

RECURSIVE SeqRemoveAt(_, _)
SeqRemoveAt(s, i) ==
    IF i = 1 THEN Tail(s) ELSE <<Head(s)>> \o SeqRemoveAt(Tail(s), i - 1)

LayerNames(ls) == [i \in 1..Len(ls) |-> ls[i].sName]
HasLayer(ls, name) == \E i \in 1..Len(ls) : ls[i].sName = name
LayerIdx(ls, name) == CHOOSE i \in 1..Len(ls) : ls[i].sName = name

vSceneAppendLayer(sceneRec, vLayer) ==
    [sceneRec EXCEPT !.lLayers = tll_push_front(@, vLayer)]

(* ---------------------------- controllers ----------------------------- *)
\* tController as tControllerInit fills it.
tController(id, type, hnd) ==
    [uControllerID |-> id, sdlEventType |-> type, fHnd |-> hnd,
     uDelay |-> 0, uControllerLastCalled |-> 0, invoke |-> FALSE,
     sdlEvent |-> NoEvent,
     \* history: the first event of the subscribed type polled since the
     \* handler was last called
     hFirst |-> NoEvent]

vSceneAppendController(sceneRec, tCtrl) ==
    [sceneRec EXCEPT !.lControllers = tll_push_front(@, tCtrl)]

\* scene.c:290-294: every node whose id matches is unlinked; lists that
\* hold no such node are left as they are.
vSceneRemoveControllerOrHead(sceneRec, uControllerID) ==
    IF \E i \in DOMAIN sceneRec.lControllers :
           sceneRec.lControllers[i].uControllerID = uControllerID
    THEN [sceneRec EXCEPT !.lControllers =
             SelectSeq(@, LAMBDA c : c.uControllerID # uControllerID)]
    ELSE [sceneRec EXCEPT !.lControllers = IF @ = <<>> THEN @ ELSE Tail(@)]

vSceneRemoveController(sceneRec, uControllerID) ==
    [sceneRec EXCEPT !.lControllers =
        SelectSeq(@, LAMBDA c : c.uControllerID # uControllerID)]

\* A call vSceneRemoveController(tRun->sScene, id) made by user code.
RemoveFromActiveScene(st, id) ==
    LET before == st.scenes[st.sScene].lControllers
        after == vSceneRemoveController(st.scenes[st.sScene], id)
    IN [st EXCEPT !.scenes[st.sScene] = after,
                  !.rmLog = Append(@, [scene |-> st.sScene, id |-> id,
                                       before |-> before,
                                       after |-> after.lControllers])]

\* controller.c:48-60: the counter is incremented first, the new value is
\* the id; the controller goes to the front of the active scene's list.
tControllerInitRecycle(st, type, hnd) ==
    LET id == Len(st.scenes[st.sScene].lControllers) + 1
    IN [st EXCEPT !.CONT_COUNTER = @ + 1,
                  !.scenes[st.sScene] =
                      vSceneAppendController(@, tController(id, type, hnd)),
                  !.idLog = Append(@, id)]

tControllerInit(st, type, hnd) ==
    LET uCCounter == st.CONT_COUNTER + 1
    IN [st EXCEPT !.CONT_COUNTER = uCCounter,
                  !.scenes[st.sScene] =
                      vSceneAppendController(@, tController(uCCounter, type, hnd)),
                  !.idLog = Append(@, uCCounter)]

\* controller.c:84-101, vKeyboardControllerInit: the two base controllers
\* (key down, then key up) and the empty handler lists.
NoKeyboard == [uDown |-> 0, uUp |-> 0, sdlPressed |-> <<>>, sdlReleased |-> <<>>]
vKeyboardControllerInit(st) ==
    LET s1 == tControllerInit(st, "KEYDOWN", "keyboard")
        s2 == tControllerInit(s1, "KEYUP", "keyboard")
    IN [s2 EXCEPT !.kbd = [uDown |-> s1.CONT_COUNTER, uUp |-> s2.CONT_COUNTER,
                           sdlPressed |-> <<>>, sdlReleased |-> <<>>]]

\* controller.c:128-131, vKeyboardOnPress.
vKeyboardOnPress(st, sdlKey, fHnd) ==
    [st EXCEPT !.kbd.sdlPressed = <<[fHnd |-> fHnd, sdlKey |-> sdlKey]>> \o @]

\* controller.c:112, 117: the pair is for the event's key, and the event is
\* no auto-repeat.
bKeyMatchAnyRepeat(tPair, ev) == tPair.sdlKey = ev.sym
bKeyMatch(tPair, ev) == tPair.sdlKey = ev.sym /\ ev.repeat = 0

\* tPair->item.fHnd(vRun, tCtrl): the user's counter handler.
RECURSIVE KeyPairs(_, _, _)
KeyPairs(st, pairs, ev) ==
    IF pairs = <<>> THEN st
    ELSE KeyPairs(IF bKeyMatch(Head(pairs), ev) /\ Head(pairs).fHnd = "count"
                  THEN [st EXCEPT !.hits = Append(@, ev)]
                  ELSE st,
                  Tail(pairs), ev)

\* controller.c:106-123, __vKeyboardControllerHandlerFn.
vKeyboardControllerHandlerFn(st, ev) ==
    CASE ev.type = "KEYDOWN" -> KeyPairs(st, st.kbd.sdlPressed, ev)
      [] ev.type = "KEYUP" -> KeyPairs(st, st.kbd.sdlReleased, ev)
      [] OTHER -> st

CtrlIds(cs) == [i \in 1..Len(cs) |-> cs[i].uControllerID]
HasCtrl(cs, id) == \E i \in 1..Len(cs) : cs[i].uControllerID = id
CtrlIdx(cs, id) == CHOOSE i \in 1..Len(cs) : cs[i].uControllerID = id

EmptyScene ==
    [lLayers |-> <<>>, lControllers |-> <<>>, lColliders |-> <<>>, lRects |-> <<>>,
     uCurrentRunningLayerId |-> 0, uCurrentRunningControllerId |-> 0,
     \* the length field of lLayers minus the number of nodes linked in it
     iLayersSkew |-> 0]

(* ------------------------------- state -------------------------------- *)
VARIABLES
    scenes,        \* the tScene objects: lLayers, lControllers and the cursors
    sScene,        \* tRun->sScene
    now,           \* SDL_GetTicks()
    tLast,         \* errMainLoop: tLast
    tDelay,        \* errMainLoop: tDelay, the update debt
    pc,            \* position of errMainLoop
    err,           \* the tEngineError errMainLoop returned (0: none)
    CONT_COUNTER,  \* controller.c: static id counter
    nextName,      \* number of layer names handed out so far
    reg,           \* history: sName -> [prio, scene] as registered
    runs,          \* history: sName -> number of fRun invocations
    seen,          \* history: sName -> layer loops that found the layer linked
    fired,         \* history: controller id -> number of fHnd invocations
    lastFire,      \* history: controller id -> time of its latest due check that fired (-1: none)
    polled,        \* history: event type -> events of that type polled
    tick,          \* history: what the latest errEngineUpdateHandle did
    inLog,         \* history: what the latest errEngineInputHandle did
    nTicks,        \* history: update ticks executed
    cfg,           \* the user program's vRuntimeConfig: start scene, controllers
    idLog,         \* history: the ids tControllerInit has returned, in order
    iterLog,       \* history: the phases of the current pass of the main loop
    debt0,         \* history: tDelay right after line 61 of the current pass
    dirChanged,    \* user variable: Player.eDir differs from eLastDir
    slp,           \* history: sName -> what was last done to its sleep timer
    phys,          \* the physics bodies: body -> its tPhysController and rect position
    nextForce,     \* history: forces appended so far
    frc,           \* history: force -> its iTimes when appended, its applications
    kbd,           \* the user's tKeyboardController: tCtrlPair, tKeybHndPair
    keyLog,        \* history: the key-down events polled while kbd's controller was linked
    hits,          \* history: the events the user's counter handler was invoked for
    ovl,           \* the collision test on its own: two labels, and the results once called
    af,            \* vAppendForce on its own: the two forces, and the main force once called
    uRectIDIncrementer  \* rect.c: the id counter of tInitRect

vars == <<scenes, sScene, now, tLast, tDelay, pc, err, CONT_COUNTER, nextName,
          reg, runs, seen, fired, lastFire, polled, tick, inLog, nTicks, cfg,
          idLog, iterLog, debt0, dirChanged, slp, phys, nextForce, frc,
          kbd, keyLog, hits, ovl, af, uRectIDIncrementer>>

LayerNameSet == 1..MaxLayers
CtrlIdSet == 1..MaxCtrls

NoTick ==
    [sc0 |-> NoScene, scL |-> NoScene, t0 |-> 0, ctrls0 |-> <<>>, layers0 |-> <<>>,
     ctrlLog |-> <<>>, layerLog |-> <<>>, callLog |-> <<>>, swapLog |-> <<>>,
     uafRead |-> FALSE, rmLog |-> <<>>, uafWrite |-> FALSE, sleepLog |-> <<>>,
     physLog |-> <<>>, warnLog |-> <<>>, guardLog |-> <<>>, unlinkLog |-> <<>>]

(* ----------------------------- scene swap ----------------------------- *)
\* Works on the record threaded through a phase: st.scenes, st.sScene, ...
\* The record of a swap from st.sScene to tSc that led from st to s1: the
\* new scene's layers, and the scene left as it was before and is after.
LogSwap(st, s1, tSc) ==
    [s1 EXCEPT !.swapLog = Append(@, [to |-> tSc, layers |-> s1.scenes[tSc].lLayers,
                                      from |-> st.sScene,
                                      leftBefore |-> st.scenes[st.sScene],
                                      leftAfter |-> s1.scenes[st.sScene]])]

vRuntimeSwapSceneNoSort(st, tSc) == LogSwap(st, [st EXCEPT !.sScene = tSc], tSc)

vRuntimeSwapSceneResetLeft(st, tSc) ==
    LogSwap(st, [st EXCEPT !.sScene = tSc,
                           !.scenes[tSc].lLayers = tll_sort(@),
                           !.scenes[st.sScene].lLayers =
                               [i \in DOMAIN @ |-> [@[i] EXCEPT !.uLastSleep = 0]]],
            tSc)

vRuntimeSwapScene(st, tSc) ==
    LogSwap(st, [st EXCEPT !.sScene = tSc, !.scenes[tSc].lLayers = tll_sort(@)], tSc)

(* ------------------------- controller dispatch ------------------------ *)
\* runtime.c:258, the throttle test of a pending controller.
bCtrlDueNever(c, t) == FALSE
bCtrlDueAlways(c, t) == TRUE
bCtrlDueInclusive(c, t) == c.uControllerLastCalled + c.uDelay <= t
bCtrlDue(c, t) == c.uControllerLastCalled + c.uDelay < t

(* ------------------------------- physics ------------------------------ *)
\* The physics bodies of a program: body 1 (the bird of the flappy example)
\* and body 2 (a tube), each a tPhysController with the position of its
\* rect.  NoPhys: vPhysicsInit has not run for the body.
Bodies == {1, 2}
NoPhys ==
    [uCtrlId |-> 0, eBodyType |-> "NONE", uCollidersGroup |-> 0,
     tAdditionalForces |-> <<>>, lCurrentlyCollides |-> <<>>, fX |-> 0, fY |-> 0]
NoPhysCfg == [body |-> "NONE", forces |-> <<>>, delay |-> 0, tube |-> "NONE"]
FlyTimes == 1                      \* iTimes of the force a "fly" handler appends
TubeShift == 3                     \* how far a "moveTubes" layer moves the tube

\* The collider label of the body's rect: unit width and height.
tColliderLabel(ph) ==
    [x |-> ph.fX, y |-> ph.fY, w |-> 1, h |-> 1,
     uCollidersGroup |-> ph.uCollidersGroup, uColliderId |-> ph.uCtrlId]

\* physics.c:85-91.
checkCollisionLeftOnly(a, b) ==
    ~(a.x + a.w <= b.x \/ a.y + a.h <= b.y \/ a.y >= b.y + b.h)
checkCollision(a, b) ==
    ~(a.x + a.w <= b.x \/ a.x >= b.x + b.w \/ a.y + a.h <= b.y \/ a.y >= b.y + b.h)

\* The labels the test is called with on its own: positions 0..MaxCoord,
\* widths and heights 1 and 2.
Boxes ==
    {[x |-> x, y |-> y, w |-> w, h |-> h, uCollidersGroup |-> 0, uColliderId |-> 0] :
        x \in 0..MaxCoord, y \in 0..MaxCoord, w \in {1, 2}, h \in {1, 2}}
NoOverlapTest ==
    [a |-> [x |-> 0, y |-> 0, w |-> 1, h |-> 1, uCollidersGroup |-> 0, uColliderId |-> 0],
     b |-> [x |-> 0, y |-> 0, w |-> 1, h |-> 1, uCollidersGroup |-> 0, uColliderId |-> 0],
     called |-> FALSE, ab |-> FALSE, ba |-> FALSE]

\* physics.c:182-184.
bPhysicsCurrentlyCollides(ph) == Len(ph.lCurrentlyCollides) > 0

\* tCtrl->vUserData of a physics controller: the body it was created for.
BodyOf(st, cid) == CHOOSE b \in Bodies : st.phys[b].uCtrlId = cid

\* physics.c:141-143, vPhysicsApplyForce; the force gets the next number,
\* under which the history frc keeps its iTimes and its applications.
vPhysicsApplyForce(st, b, iTimes) ==
    LET f == st.nextForce + 1
    IN [st EXCEPT
          !.phys[b].tAdditionalForces =
              tll_push_front(@, [id |-> f, x |-> 0, y |-> 1, dSpeed |-> 1,
                                 iTimes |-> iTimes]),
          !.nextForce = f,
          !.frc[f] = [made |-> TRUE, k |-> iTimes, applied |-> 0]]

RECURSIVE ApplyForcesCfg(_, _, _)
ApplyForcesCfg(st, b, ks) ==
    IF ks = <<>> \/ st.nextForce >= MaxForces THEN st
    ELSE ApplyForcesCfg(vPhysicsApplyForce(st, b, Head(ks)), b, Tail(ks))

\* The body and its label once tControllerInit has left the record s1.
PhysInitBody(s1, b, pcfg) ==
    [s1 EXCEPT
       !.scenes[s1.sScene].lControllers[
            CtrlIdx(s1.scenes[s1.sScene].lControllers, s1.CONT_COUNTER)] =
               [@ EXCEPT !.invoke = TRUE, !.uDelay = pcfg.delay],
       !.scenes[s1.sScene].lColliders =
            tll_push_front(@, tColliderLabel([NoPhys EXCEPT !.uCtrlId = s1.CONT_COUNTER])),
       !.phys[b] = [NoPhys EXCEPT !.uCtrlId = s1.CONT_COUNTER, !.eBodyType = pcfg.body]]

\* physics.c:42-69 and 78-83: vPhysicsInit, then vPhysicsSetDelay and the
\* forces of the configuration, as the init layer of the examples does.
vPhysicsInit(st, b, pcfg) ==
    ApplyForcesCfg(PhysInitBody(tControllerInit(st, "USEREVENT", "phys"), b, pcfg),
                   b, pcfg.forces)

\* physics.c:115-121, one force of a DYNAMIC body: vApplyForce, then the
\* force is unlinked when its iTimes is 0 and counted down when positive.
ForceStep(st, b, f) ==
    LET fs == st.phys[b].tAdditionalForces
        i == CHOOSE j \in DOMAIN fs : fs[j].id = f
        tF == fs[i]
        s1 == [st EXCEPT !.phys[b].fX = @ + tF.x * tF.dSpeed,
                         !.phys[b].fY = @ + tF.y * tF.dSpeed,
                         !.frc[f].applied = @ + 1]
    IN IF tF.iTimes = 0
       THEN [s1 EXCEPT !.phys[b].tAdditionalForces = SeqRemoveAt(@, i)]
       ELSE IF tF.iTimes > 0
       THEN [s1 EXCEPT !.phys[b].tAdditionalForces[i].iTimes = @ - 1]
       ELSE s1

RECURSIVE ForceLoop(_, _, _)
ForceLoop(st, b, fids) ==
    IF fids = <<>> THEN st ELSE ForceLoop(ForceStep(st, b, Head(fids)), b, Tail(fids))

\* physics.c:126-128, one collider of the scan: whether it is appended.
bCollides(ph, tCol, tCol2) ==
    /\ tCol2.uCollidersGroup = ph.uCollidersGroup
    /\ tCol2.uColliderId # tCol.uColliderId
    /\ checkCollision(tCol, tCol2)

\* physics.c:124-131, the colliders of the same group that overlap tCol.
RECURSIVE CollideLoop(_, _, _, _)
CollideLoop(st, b, tCol, cols) ==
    IF cols = <<>> THEN st
    ELSE CollideLoop(IF bCollides(st.phys[b], tCol, Head(cols))
                     THEN [st EXCEPT !.phys[b].lCurrentlyCollides =
                                        tll_push_front(@, Head(cols))]
                     ELSE st,
                     b, tCol, Tail(cols))

\* physics.c:95, the first statement of the handler.
PhysRearmNever(c) == c
PhysRearm(c) == [c EXCEPT !.invoke = TRUE]

\* physics.c:98-110: the positions in lColliders of the labels of this body.
PhysLabels(st, b) ==
    {j \in DOMAIN st.scenes[st.sScene].lColliders :
        st.scenes[st.sScene].lColliders[j].uColliderId = st.phys[b].uCtrlId}

\* tCol, the copy the loop leaves: the body's label as it was before the
\* refresh (the label of the last collider when the body has none in the
\* active scene).
PhysLabelCopy(st, b) ==
    LET cols == st.scenes[st.sScene].lColliders
    IN IF PhysLabels(st, b) # {}
       THEN cols[CHOOSE j \in PhysLabels(st, b) : \A m \in PhysLabels(st, b) : j <= m]
       ELSE IF cols = <<>> THEN tColliderLabel(NoPhys) ELSE cols[Len(cols)]

\* The body's label takes the position of the body's rect.
PhysLabelRefresh(st, b) ==
    IF PhysLabels(st, b) = {} THEN st
    ELSE [st EXCEPT !.scenes[st.sScene].lColliders[
                        CHOOSE j \in PhysLabels(st, b) : \A m \in PhysLabels(st, b) : j <= m] =
                       tColliderLabel(st.phys[b])]

\* physics.c:113-122, case DYNAMIC: every force of the body, front to back.
PhysForces(st, b) ==
    IF st.phys[b].eBodyType = "DYNAMIC"
    THEN ForceLoop(st, b, [j \in DOMAIN st.phys[b].tAdditionalForces |->
                              st.phys[b].tAdditionalForces[j].id])
    ELSE st

\* physics.c:123-131, case STATIC, which DYNAMIC falls through to.
PhysCollisions(st, b, tCol) ==
    IF st.phys[b].eBodyType \in {"DYNAMIC", "STATIC"}
    THEN CollideLoop(st, b, tCol, st.scenes[st.sScene].lColliders)
    ELSE st

\* The record of one invocation: the body's box and list when it returns,
\* the labels the scan went over, the copy tCol it compared them with.
PhysLogged(st, b, cid, t, tCol) ==
    [st EXCEPT !.physLog = Append(@,
        [id |-> cid, b |-> b, body |-> st.phys[b].eBodyType, t |-> t,
         tCol |-> tCol, box |-> tColliderLabel(st.phys[b]),
         boxes |-> [c \in Bodies |-> tColliderLabel(st.phys[c])],
         cols |-> st.scenes[st.sScene].lColliders,
         collides |-> st.phys[b].lCurrentlyCollides])]

\* The handler after its first statement left the record s1.
PhysStep(s1, b, cid) ==
    PhysLogged(PhysCollisions(PhysForces(PhysLabelRefresh(s1, b), b), b,
                              PhysLabelCopy(s1, b)),
               b, cid, s1.now, PhysLabelCopy(s1, b))

\* physics.c:94-135, __vPhysicsControllerInternal.
vPhysicsControllerInternal(st, sc0, cid) ==
    PhysStep([st EXCEPT !.scenes[sc0].lControllers[
                            CtrlIdx(st.scenes[sc0].lControllers, cid)] = PhysRearm(@)],
             BodyOf(st, cid), cid)

\* c->item.fHnd(tRun, &c->item): the handler of controller cid, a node of
\* the controller list of scene sc0.
RunHandler(st, sc0, cid) ==
    LET i == CtrlIdx(st.scenes[sc0].lControllers, cid)
        c == st.scenes[sc0].lControllers[i]
        h == c.fHnd
    IN CASE h = "noop" -> st
         [] h = "rearm" -> [st EXCEPT !.scenes[sc0].lControllers[i].invoke = TRUE]
         [] h = "slow" -> [st EXCEPT !.now = @ + 1]
         [] h = "turn" -> [st EXCEPT !.dirChanged = TRUE]
         [] h = "keyboard" -> vKeyboardControllerHandlerFn(st, c.sdlEvent)
         [] h = "phys" -> vPhysicsControllerInternal(st, sc0, cid)
         [] h = "fly" ->
               IF st.phys[1].uCtrlId # 0 /\ st.nextForce < MaxForces
               THEN vPhysicsApplyForce(st, 1, FlyTimes)
               ELSE st
         [] h = "swap" ->
               RemoveFromActiveScene(vRuntimeSwapScene(st, OtherScene(st.sScene)), cid)
         \* vSceneRemoveController on another controller: the first one the
         \* configuration created, the last node of the list.
         [] h = "kick" -> RemoveFromActiveScene(st, 1)
         [] h = "setDelay" -> [st EXCEPT !.scenes[sc0].lControllers[i].uDelay = DelayB]
         [] h = "respawn" ->
               LET s1 == RemoveFromActiveScene(st, cid)
               IN IF s1.CONT_COUNTER < MaxCtrls
                  THEN tControllerInit(s1, c.sdlEventType, "respawn")
                  ELSE s1

\* runtime.c:259-260: the cursor is set and the flag gets the value inv,
\* then the handler is called.
CtrlCall(st, sc0, cid, inv) ==
    LET i == CtrlIdx(st.scenes[sc0].lControllers, cid)
        s1 == [st EXCEPT
                 !.scenes[st.sScene].uCurrentRunningControllerId = st.uCtrlId,
                 !.scenes[sc0].lControllers[i].invoke = inv,
                 !.scenes[sc0].lControllers[i].hFirst = NoEvent,
                 !.callLog = Append(@, [kind |-> "ctrl", id |-> cid, prio |-> 0]),
                 !.fired[cid] = @ + 1]
    IN RunHandler(s1, sc0, cid)

\* runtime.c:262: the store into the node the loop holds.  When the handler
\* has unlinked that node the store goes into freed memory; when the handler
\* has also created a controller, the allocator may have handed the freed
\* block to the new node (st.reuse), and then the store lands in it.
StoreLastCalled(st, s2, sc0, cid) ==
    LET cs == s2.scenes[sc0].lControllers
        csNew == s2.scenes[s2.sScene].lControllers
        new == s2.CONT_COUNTER
    IN IF HasCtrl(cs, cid)
       THEN [s2 EXCEPT !.scenes[sc0].lControllers[CtrlIdx(cs, cid)]
                           .uControllerLastCalled = s2.now,
                       !.lastFire[cid] = st.now]
       ELSE IF s2.reuse /\ new > st.CONT_COUNTER /\ HasCtrl(csNew, new)
       THEN [s2 EXCEPT !.scenes[s2.sScene].lControllers[CtrlIdx(csNew, new)]
                           .uControllerLastCalled = s2.now,
                       !.lastFire[cid] = st.now,
                       !.uafWrite = TRUE]
       ELSE [s2 EXCEPT !.lastFire[cid] = st.now, !.uafWrite = TRUE]

\* The record of one visit.  For a controller that its handler unlinked,
\* lastAfter is the value line 262 stored and invokeAfter is FALSE.
CtrlLogged(st, sF, sc0, cid, due, atCall) ==
    LET c == st.scenes[sc0].lControllers[CtrlIdx(st.scenes[sc0].lControllers, cid)]
        csF == sF.scenes[sc0].lControllers
        gone == ~HasCtrl(csF, cid)
        cF == IF gone THEN [c EXCEPT !.invoke = FALSE, !.uControllerLastCalled = sF.now]
              ELSE csF[CtrlIdx(csF, cid)]
    IN [sF EXCEPT
          !.uCtrlId = @ + 1,
          !.ctrlLog = Append(@,
              [id |-> cid, hnd |-> c.fHnd, pending |-> c.invoke, t |-> st.now,
               last |-> c.uControllerLastCalled, delay |-> c.uDelay,
               prevFire |-> st.lastFire[cid], fired |-> due,
               invokeAtCall |-> due /\ atCall,
               invokeAfter |-> cF.invoke, lastAfter |-> cF.uControllerLastCalled,
               tAfter |-> sF.now, gone |-> gone, freed |-> FALSE,
               type |-> c.sdlEventType, payload |-> c.sdlEvent, first |-> c.hFirst])]

CtrlVisitNoClear(st, sc0, cid) ==
    LET c == st.scenes[sc0].lControllers[CtrlIdx(st.scenes[sc0].lControllers, cid)]
        due == c.invoke /\ bCtrlDue(c, st.now)
        s2 == CtrlCall(st, sc0, cid, c.invoke)
        sF == IF due THEN StoreLastCalled(st, s2, sc0, cid) ELSE st
    IN CtrlLogged(st, sF, sc0, cid, due, c.invoke)

CtrlVisitClearAfter(st, sc0, cid) ==
    LET c == st.scenes[sc0].lControllers[CtrlIdx(st.scenes[sc0].lControllers, cid)]
        due == c.invoke /\ bCtrlDue(c, st.now)
        s2 == CtrlCall(st, sc0, cid, FALSE)
        s3 == StoreLastCalled(st, s2, sc0, cid)
        cs3 == s3.scenes[sc0].lControllers
        s4 == IF HasCtrl(cs3, cid)
              THEN [s3 EXCEPT !.scenes[sc0].lControllers[CtrlIdx(cs3, cid)].invoke = FALSE]
              ELSE s3
        sF == IF due THEN s4 ELSE st
    IN CtrlLogged(st, sF, sc0, cid, due, FALSE)

\* One iteration of the tll_foreach over lControllers (runtime.c:256-266).
CtrlVisit(st, sc0, cid) ==
    LET c == st.scenes[sc0].lControllers[CtrlIdx(st.scenes[sc0].lControllers, cid)]
        due == c.invoke /\ bCtrlDue(c, st.now)
        s2 == CtrlCall(st, sc0, cid, FALSE)
        sF == IF due THEN StoreLastCalled(st, s2, sc0, cid) ELSE st
    IN CtrlLogged(st, sF, sc0, cid, due, FALSE)

\* The id of the node linked after the node id in cs (0: NULL).
NextCtrl(cs, id) ==
    IF HasCtrl(cs, id) /\ CtrlIdx(cs, id) < Len(cs)
    THEN cs[CtrlIdx(cs, id) + 1].uControllerID
    ELSE 0

\* The list the node cid was unlinked from by vSceneRemoveController in
\* this tick: the freed node holds what it held then.
FreedFrom(st, cid) ==
    LET ks == {k \in DOMAIN st.rmLog :
                 st.rmLog[k].id = cid /\ HasCtrl(st.rmLog[k].before, cid)}
    IN st.rmLog[CHOOSE k \in ks : \A j \in ks : j <= k].before

\* One iteration of the loop on a node that the handler of the node before
\* it has unlinked and freed: the pointer to it was taken before that
\* handler ran.  What the reads of the freed node yield is not defined:
\* either the block still holds the node (st.reuse false), and it is
\* dispatched as if linked, or it has been overwritten (st.reuse) and
\* reads as zeroes.  The handlers of such nodes here do nothing.
CtrlVisitFreed(st, sc0, cid) ==
    LET c == FreedFrom(st, cid)[CtrlIdx(FreedFrom(st, cid), cid)]
        due == ~st.reuse /\ c.invoke /\ bCtrlDue(c, st.now)
    IN [st EXCEPT
          !.scenes[st.sScene].uCurrentRunningControllerId =
              IF due THEN st.uCtrlId ELSE @,
          !.callLog = IF due THEN Append(@, [kind |-> "ctrl", id |-> cid, prio |-> 0])
                      ELSE @,
          !.fired[cid] = IF due THEN @ + 1 ELSE @,
          !.lastFire[cid] = IF due THEN st.now ELSE @,
          !.uafWrite = @ \/ due,
          !.uCtrlId = @ + 1,
          !.ctrlLog = Append(@,
              [id |-> cid, hnd |-> c.fHnd, pending |-> c.invoke /\ ~st.reuse,
               t |-> st.now,
               last |-> c.uControllerLastCalled, delay |-> c.uDelay,
               prevFire |-> st.lastFire[cid], fired |-> due,
               invokeAtCall |-> FALSE,
               invokeAfter |-> FALSE, lastAfter |-> st.now,
               tAfter |-> st.now, gone |-> TRUE, freed |-> TRUE,
               type |-> c.sdlEventType, payload |-> c.sdlEvent, first |-> c.hFirst])]

\* tll_foreach: it_next = it_next->next, read after the body has run.  A
\* freed node that was overwritten reads as NULL.
CtrlAdvance(s, sc0, itNext) ==
    IF itNext = 0 THEN 0
    ELSE IF HasCtrl(s.scenes[sc0].lControllers, itNext)
    THEN NextCtrl(s.scenes[sc0].lControllers, itNext)
    ELSE IF s.reuse THEN 0
    ELSE NextCtrl(FreedFrom(s, itNext), itNext)

\* The tll_foreach over lControllers (runtime.c:256-266): it is the node of
\* this iteration, itNext the node the loop has already taken for the next.
RECURSIVE CtrlLoop(_, _, _, _)
CtrlLoopOn(s, sc0, itNext) == CtrlLoop(s, sc0, itNext, CtrlAdvance(s, sc0, itNext))
CtrlLoop(st, sc0, it, itNext) ==
    IF it = 0 THEN st
    ELSE CtrlLoopOn(IF HasCtrl(st.scenes[sc0].lControllers, it)
                    THEN CtrlVisit(st, sc0, it)
                    ELSE CtrlVisitFreed(st, sc0, it),
                    sc0, itNext)

(* --------------------------- layer scheduler -------------------------- *)
\* A layer registered while the program runs gets the next unused name.
RegisterLayer(st, prio, body) ==
    LET name == st.nextName + 1
    IN [st EXCEPT
          !.scenes[st.sScene] = vSceneAppendLayer(@, tLayer(name, prio, body)),
          !.nextName = name,
          !.reg[name] = [prio |-> prio, scene |-> st.sScene]]

(* ------------------------------ layer sleep --------------------------- *)
\* The history kept per layer about its sleep timer: "idle" (never armed,
\* or the deadline was consumed or cleared), "armed" (by the arm at time
\* armAt for ms milliseconds), "forced" (force-expired); trips counts the
\* checks on the layer that reported "just elapsed".
SlpIdle == [phase |-> "idle", armAt |-> 0, ms |-> 0, trips |-> 0]

SlpEntry(st, op, target, before, after, res, flag) ==
    [op |-> op, caller |-> st.self, target |-> target, t |-> st.now,
     before |-> before, after |-> after, res |-> res, flag |-> flag,
     g |-> st.slp[target]]

\* What the layer st.self did about the sleep timer of sLayerName at this
\* point: the deadlines of the active scene's layers are recorded with it.
SlpNote(st, op, sLayerName) ==
    [op |-> op, caller |-> st.self, target |-> sLayerName, t |-> st.now,
     deadlines |-> [i \in DOMAIN st.scenes[st.sScene].lLayers |->
                      st.scenes[st.sScene].lLayers[i].uLastSleep]]

\* runtime.c:332-341, __vFeatherSleepLayerMs: a name no layer of the active
\* scene has is a warning in the log.
vFeatherSleepLayerMsFn(st, sLayerName, ms) ==
    LET ls == st.scenes[st.sScene].lLayers
    IN IF HasLayer(ls, sLayerName)
       THEN LET i == LayerIdx(ls, sLayerName)
            IN [st EXCEPT
                  !.scenes[st.sScene].lLayers[i].uLastSleep = st.now + ms,
                  !.slp[sLayerName] = [@ EXCEPT !.phase = "armed", !.armAt = st.now,
                                                !.ms = ms],
                  !.sleepLog = Append(@, SlpEntry(st, "arm", sLayerName,
                                        ls[i].uLastSleep, st.now + ms, 0, FALSE))]
       ELSE [st EXCEPT !.warnLog = Append(@, SlpNote(st, "arm", sLayerName))]

\* runtime.c:353, the test of a non-zero deadline.
bSleepOverInclusive(t, uLastSleep) == t >= uLastSleep
bSleepOver(t, uLastSleep) == t > uLastSleep

\* runtime.c:348-364, __vFeatherCheckLayerSleepMs: 0 not sleeping, 1 still
\* waiting, -1 just elapsed (and also when no layer has that name).
vFeatherCheckLayerSleepMsFn(st, sLayerName) ==
    LET ls == st.scenes[st.sScene].lLayers
    IN IF HasLayer(ls, sLayerName)
       THEN LET i == LayerIdx(ls, sLayerName)
                dl == ls[i].uLastSleep
                res == IF dl = 0 THEN 0
                       ELSE IF bSleepOver(st.now, dl) THEN -1 ELSE 1
                after == IF res = -1 THEN 0 ELSE dl
            IN [res |-> res,
                st |-> [st EXCEPT
                          !.scenes[st.sScene].lLayers[i].uLastSleep = after,
                          !.slp[sLayerName] =
                              IF res = -1
                              THEN [SlpIdle EXCEPT !.trips = st.slp[sLayerName].trips + 1]
                              ELSE @,
                          !.sleepLog = Append(@, SlpEntry(st, "check", sLayerName,
                                                dl, after, res, FALSE))]]
       ELSE [res |-> -1,
             st |-> [st EXCEPT !.warnLog = Append(@, SlpNote(st, "check", sLayerName))]]

\* runtime.c:371-386, tRuntimeGetCurrentLayer: the position in the active
\* scene's list that the cursor uCurrentRunningLayerId counts to (0: NULL).
tRuntimeGetCurrentLayer(st) ==
    LET k == st.scenes[st.sScene].uCurrentRunningLayerId + 1
    IN IF k <= Len(st.scenes[st.sScene].lLayers) THEN k ELSE 0

\* runtime.c:392-396: the bool is stored into uLastSleep.
vRuntimeUnsleepCurrentLayer(st, ignoreNextSleep) ==
    LET k == tRuntimeGetCurrentLayer(st)
        ls == st.scenes[st.sScene].lLayers
        v == IF ignoreNextSleep THEN 1 ELSE 0
    IN IF k = 0 THEN st
       ELSE [st EXCEPT
               !.scenes[st.sScene].lLayers[k].uLastSleep = v,
               !.slp[ls[k].sName] =
                   [SlpIdle EXCEPT !.phase = IF ignoreNextSleep THEN "forced" ELSE "idle",
                                   !.trips = st.slp[ls[k].sName].trips],
               !.sleepLog = Append(@, SlpEntry(st, "unsleep", ls[k].sName,
                                     ls[k].uLastSleep, v, 0, ignoreNextSleep))]

\* runtime.h:130-134, the clause vFeatherSleepLayerMs(tRun, name, ms) { }:
\* 0 arms the timer, a positive result skips the guarded block, any other
\* runs it.  The block changes nothing the engine sees; that it ran is
\* recorded in guardLog.
SleepClause(r, sLayerName, ms) ==
    IF r.res = 0 THEN vFeatherSleepLayerMsFn(r.st, sLayerName, ms)
    ELSE IF r.res > 0 THEN r.st
    ELSE [r.st EXCEPT !.guardLog = Append(@, SlpNote(r.st, "guarded", sLayerName))]

vFeatherSleepLayerMs(st, sLayerName, ms) ==
    SleepClause(vFeatherCheckLayerSleepMsFn(st, sLayerName), sLayerName, ms)

\* runtime.h:139-144, vFeatherSleepThisLayerMs: the name is that of the
\* layer tRuntimeGetCurrentLayer returns.
vFeatherSleepThisLayerMs(st, ms) ==
    LET k == tRuntimeGetCurrentLayer(st)
    IN IF k = 0 THEN st
       ELSE vFeatherSleepLayerMs(st, st.scenes[st.sScene].lLayers[k].sName, ms)

(* ------------------------------ drawables ------------------------------ *)
\* rect.c:179-186: the rect goes before the first element of a higher
\* priority, or to the back when there is none.
RECURSIVE RectInsert(_, _)
RectInsert(ls, tRct) ==
    IF ls = <<>> THEN <<tRct>>
    ELSE IF Head(ls).uPriority > tRct.uPriority THEN <<tRct>> \o ls
    ELSE <<Head(ls)>> \o RectInsert(Tail(ls), tRct)

\* tInitRect with a texture that loads (or none): a rect of the next id.
tInitRect(st, uPriority) ==
    [st EXCEPT !.scenes[st.sScene].lRects =
                  RectInsert(@, [uRectId |-> st.uRectIDIncrementer,
                                 uPriority |-> uPriority, sTexturePath |-> "asset"]),
               !.uRectIDIncrementer = @ + 1]

\* font.c:75-83: a copy of the text's rect goes before every element of a
\* priority above uPriority (the loop does not stop), and one more to the back.
RECURSIVE TextInsert(_, _, _)
TextInsert(ls, tRct, uPriority) ==
    IF ls = <<>> THEN <<tRct>>
    ELSE (IF Head(ls).uPriority > uPriority THEN <<tRct, Head(ls)>> ELSE <<Head(ls)>>)
            \o TextInsert(Tail(ls), tRct, uPriority)

\* tTextInit with a font that loads and a non-empty text: the initializer of
\* the text's rect names neither uPriority nor uRectId, so both are 0.
tTextInit(st, uPriority) ==
    [st EXCEPT !.scenes[st.sScene].lRects =
                  TextInsert(@, [uRectId |-> 0, uPriority |-> 0,
                                 sTexturePath |-> "TEXTR"], uPriority)]

\* The creations of an init layer, in order.
RECURSIVE MakeRects(_, _)
MakeRects(st, rs) ==
    IF rs = <<>> THEN st
    ELSE MakeRects(IF Head(rs).kind = "text" THEN tTextInit(st, Head(rs).prio)
                   ELSE tInitRect(st, Head(rs).prio),
                   Tail(rs))

\* The name a "sleepOther" or "armOther" layer passes: that of the layer
\* registered right after it, a layer of the other scene.
OtherLayer(st) == st.self + 1

\* The init layer of a program with physics (GameInitialize and
\* TubesInitialize of the flappy example): the bird, then the tube, each
\* with its rect.
PhysInitTube(st) ==
    IF st.cfg.phys.tube # "NONE" /\ st.CONT_COUNTER < MaxCtrls
    THEN vPhysicsInit(tInitRect(st, 1), 2,
                      [body |-> st.cfg.phys.tube, forces |-> <<>>, delay |-> 0])
    ELSE st

PhysInitAll(st) == PhysInitTube(vPhysicsInit(tInitRect(st, 3), 1, st.cfg.phys))

\* l->item.fRun(tRun): the body of the layer st.self.
RunLayer(st, body) ==
    CASE body = "noop" -> st
      [] body = "addPos" ->
            IF st.nextName < MaxLayers THEN RegisterLayer(st, 1, "noop") ELSE st
      [] body = "addNeg" ->
            IF st.nextName < MaxLayers THEN RegisterLayer(st, -1, "noop") ELSE st
      [] body = "mkCtrl" ->
            IF st.CONT_COUNTER < MaxCtrls THEN tControllerInit(st, "KEYUP", "swap") ELSE st
      [] body = "physInit" ->
            IF st.CONT_COUNTER < MaxCtrls THEN PhysInitAll(st) ELSE st
      [] body = "mkRects" -> MakeRects(st, st.cfg.rects)
      [] body = "kbdInit" ->
            IF st.CONT_COUNTER + 2 <= MaxCtrls
            THEN vKeyboardOnPress(vKeyboardControllerInit(st), "W", "count")
            ELSE st
      [] body = "moveTubes" ->
            IF bPhysicsCurrentlyCollides(st.phys[1])
            THEN [st EXCEPT !.phys[2].fX = @ + TubeShift]
            ELSE st
      [] body = "swapL" -> vRuntimeSwapScene(st, OtherScene(st.sScene))
      [] body = "sleep" -> vFeatherSleepLayerMs(st, st.self, SleepMs)
      [] body = "sleepOther" -> vFeatherSleepLayerMs(st, OtherLayer(st), SleepMs)
      [] body = "armOther" -> vFeatherSleepLayerMsFn(st, OtherLayer(st), SleepMs)
      [] body \in {"animate", "calm"} ->
            LET s1 == IF st.dirChanged
                      THEN vRuntimeUnsleepCurrentLayer(st, body = "animate")
                      ELSE st
            IN [vFeatherSleepThisLayerMs(s1, SleepMs) EXCEPT !.dirChanged = FALSE]

\* The name of the layer tRuntimeGetCurrentLayer returns in st (0: NULL).
CurrentLayerName(st) ==
    IF tRuntimeGetCurrentLayer(st) = 0 THEN 0
    ELSE st.scenes[st.sScene].lLayers[tRuntimeGetCurrentLayer(st)].sName

\* The layer's function has returned: what the cursor resolves to at that
\* point is recorded with the call, and the layer is counted as run.
LayerReturn(s2) ==
    [s2 EXCEPT !.uLayerId = @ + 1,
               !.layerLog[Len(s2.layerLog)].curOut = CurrentLayerName(s2)]

\* runtime.c:270-272: the cursor, the call, the count of layers run.
LayerCall(st, scL, name) ==
    LET l == st.scenes[scL].lLayers[LayerIdx(st.scenes[scL].lLayers, name)]
        s1 == [st EXCEPT
                 !.scenes[st.sScene].uCurrentRunningLayerId = st.uLayerId,
                 !.callLog = Append(@, [kind |-> "layer", id |-> name, prio |-> l.iPriority]),
                 !.layerLog = Append(@, [sName |-> name, prio |-> l.iPriority,
                                         owner |-> scL, cursorScene |-> st.sScene,
                                         cursor |-> st.uLayerId,
                                         curIn |-> CurrentLayerName(
                                            [st EXCEPT !.scenes[st.sScene].uCurrentRunningLayerId =
                                                          st.uLayerId]),
                                         curOut |-> 0]),
                 !.runs[name] = @ + 1,
                 !.self = name]
    IN LayerReturn(RunLayer(s1, l.fRun))

\* One iteration of the tll_foreach over lLayers (runtime.c:268-279).
\* After tll_remove the node is freed and the loop still reads its
\* iPriority: whatever that read yields, and whether or not the increment
\* is then written into the freed node, no linked node changes.  The
\* dangling access is recorded in uafRead.
LayerVisitRemoveAtZero(st, scL, name) ==
    LET l == st.scenes[scL].lLayers[LayerIdx(st.scenes[scL].lLayers, name)]
        s2 == LayerCall(st, scL, name)
        j == LayerIdx(s2.scenes[scL].lLayers, name)
        p == IF l.iPriority < 0 THEN l.iPriority + 1 ELSE l.iPriority
    IN IF p = 0
       THEN [s2 EXCEPT !.scenes[scL].lLayers = SeqRemoveAt(@, j)]
       ELSE [s2 EXCEPT !.scenes[scL].lLayers[j].iPriority = p]

LayerVisitAnySign(st, scL, name) ==
    LET i == LayerIdx(st.scenes[scL].lLayers, name)
        l == st.scenes[scL].lLayers[i]
        s3 == LayerCall(st, scL, name)
        j == LayerIdx(s3.scenes[scL].lLayers, name)
    IN IF l.iPriority # 0
       THEN [s3 EXCEPT !.scenes[scL].lLayers[j].iPriority =
                          IF @ < 0 THEN @ + 1 ELSE @ - 1]
       ELSE [st EXCEPT !.scenes[st.sScene].lLayers = SeqRemoveAt(@, i),
                       !.uafRead = TRUE]

\* runtime.c:277-278 after the call left the record s3: a negative
\* priority is counted up, in the node the loop holds.
LayerCountUp(s3, scL, name) ==
    [s3 EXCEPT !.scenes[scL].lLayers[LayerIdx(s3.scenes[scL].lLayers, name)].iPriority =
                  IF @ < 0 THEN @ + 1 ELSE @]

\* runtime.c:275, tll_remove(tRun->sScene->lLayers, l) on the node l of the
\* list of scene scL.  The node is unlinked through its own prev and next
\* pointers; head, tail and length are those of the list the macro is
\* given, the active scene's.  After a swap made by a layer earlier in the
\* pass that is another list than the node's: l then has a predecessor (the
\* layers run so far), so it leaves its own chain, and the length that is
\* decremented (and the tail that is set, when l is the last node) is the
\* active scene's.
LayerUnlink(st, scL, i) ==
    [st EXCEPT !.scenes[scL].lLayers = SeqRemoveAt(@, i),
               !.scenes[scL].iLayersSkew = IF st.sScene = scL THEN @ ELSE @ + 1,
               !.scenes[st.sScene].iLayersSkew = IF st.sScene = scL THEN @ ELSE @ - 1,
               !.unlinkLog = Append(@, [sName |-> st.scenes[scL].lLayers[i].sName,
                                        owner |-> scL, list |-> st.sScene]),
               !.uafRead = TRUE]

LayerVisit(st, scL, name) ==
    LET i == LayerIdx(st.scenes[scL].lLayers, name)
    IN IF st.scenes[scL].lLayers[i].iPriority # 0
       THEN LayerCountUp(LayerCall(st, scL, name), scL, name)
       ELSE LayerUnlink(st, scL, i)

\* A loop that starts over at a layer whose function has registered one.
RECURSIVE LayerLoopRestart(_, _, _)
LayerLoopAgain(st, s1, scL, names) ==
    LayerLoopRestart(s1, scL, IF s1.nextName > st.nextName THEN names ELSE Tail(names))
LayerLoopRestart(st, scL, names) ==
    IF names = <<>> THEN st
    ELSE LayerLoopAgain(st, LayerVisit(st, scL, Head(names)), scL, names)

RECURSIVE LayerLoop(_, _, _)
LayerLoop(st, scL, names) ==
    IF names = <<>> THEN st
    ELSE LayerLoop(LayerVisit(st, scL, Head(names)), scL, Tail(names))

\* runtime.c:255-264, the loop over the controllers of the scene that is
\* active on entry.
CtrlPhase(st) ==
    CtrlLoop(st, st.sScene,
             IF st.scenes[st.sScene].lControllers = <<>> THEN 0
             ELSE Head(st.scenes[st.sScene].lControllers).uControllerID,
             IF Len(st.scenes[st.sScene].lControllers) < 2 THEN 0
             ELSE st.scenes[st.sScene].lControllers[2].uControllerID)

\* runtime.c:269-279, the loop over the layers of the scene that is active
\* when it starts; seen counts the loops a layer's node was linked for.
LayerPhaseRun(st, scL) ==
    LayerLoop([st EXCEPT !.seen = [n \in DOMAIN @ |->
                  IF HasLayer(st.scenes[scL].lLayers, n) THEN @[n] + 1 ELSE @[n]]],
              scL, LayerNames(st.scenes[scL].lLayers))

\* The layer loop after the controllers left the record a; sc0 and ctrls0
\* are the scene and the controller list the tick started with.
LayerPhase(a, sc0, ctrls0) ==
    [st |-> LayerPhaseRun(a, a.sScene), sc0 |-> sc0, scL |-> a.sScene,
     ctrls0 |-> ctrls0, layers0 |-> a.scenes[a.sScene].lLayers]

UpdatePhaseLayersFirst(st0) ==
    [st |-> CtrlPhase(LayerPhaseRun(st0, st0.sScene)),
     sc0 |-> st0.sScene, scL |-> st0.sScene,
     ctrls0 |-> st0.scenes[st0.sScene].lControllers,
     layers0 |-> st0.scenes[st0.sScene].lLayers]

\* errEngineUpdateHandle on the threaded record: first every controller of
\* the scene that is active on entry, then every layer of the scene that is
\* active once the controllers are done.
UpdatePhase(st0) ==
    LayerPhase(CtrlPhase(st0), st0.sScene, st0.scenes[st0.sScene].lControllers)

(* ------------------------------ input --------------------------------- *)
\* runtime.c:239-244, one polled event offered to one controller.
MarkControllerSticky(c, ev) ==
    IF ~c.invoke
    THEN [c EXCEPT !.invoke = (c.sdlEventType = ev.type)]
    ELSE c

MarkControllerOverwrite(c, ev) ==
    [c EXCEPT !.invoke = @ \/ (c.sdlEventType = ev.type), !.sdlEvent = ev]

MarkController(c, ev) ==
    IF ~c.invoke
    THEN [c EXCEPT !.invoke = (c.sdlEventType = ev.type), !.sdlEvent = ev]
    ELSE c

\* The history kept with the controller c as the event ev is polled.
FirstNoted(c, ev) ==
    IF c.hFirst = NoEvent /\ c.sdlEventType = ev.type THEN [c EXCEPT !.hFirst = ev]
    ELSE c

\* vFeatherExit: the three lists it frees, then exit().
vFeatherExit(sceneRec) ==
    [sceneRec EXCEPT !.lControllers = <<>>, !.lLayers = <<>>, !.lRects = <<>>]

\* A key-down event polled while the key-down controller uDown of the
\* keyboard is linked: accepted when the controller was not pending.
KeyLogged(log, cs, uDown, ev) ==
    IF ev.type = "KEYDOWN" /\ uDown # 0 /\ HasCtrl(cs, uDown)
    THEN Append(log, [ev |-> ev, accepted |-> ~cs[CtrlIdx(cs, uDown)].invoke])
    ELSE log

\* The while (SDL_PollEvent) loop over the events evs, first serial k + 1.
RECURSIVE PollLoop(_, _, _)
PollLoop(ip, evs, k) ==
    IF evs = <<>> THEN ip
    ELSE LET ev == [type |-> Head(evs).type, serial |-> k + 1,
                    sym |-> Head(evs).sym, repeat |-> Head(evs).repeat]
             ip1 == [ip EXCEPT !.polled[ev.type] = @ + 1,
                               !.keyLog = KeyLogged(@, ip.sceneRec.lControllers,
                                                    ip.uDown, ev)]
         IN IF ev.type = "QUIT"
            THEN [ip1 EXCEPT !.sceneRec = vFeatherExit(@), !.exited = TRUE]
            ELSE LET cs == ip.sceneRec.lControllers
                     cs1 == [i \in 1..Len(cs) |->
                               FirstNoted(MarkController(cs[i], ev), ev)]
                     entries == [i \in 1..Len(cs) |->
                                   [ev |-> ev, id |-> cs[i].uControllerID,
                                    type |-> cs[i].sdlEventType,
                                    before |-> cs[i].invoke,
                                    payloadBefore |-> cs[i].sdlEvent,
                                    after |-> cs1[i].invoke,
                                    payloadAfter |-> cs1[i].sdlEvent]]
                 IN PollLoop([ip1 EXCEPT !.sceneRec.lControllers = cs1,
                                         !.log = @ \o entries],
                             Tail(evs), k + 1)

PolledTotal == polled["KEYDOWN"] + polled["KEYUP"] + polled["QUIT"]

\* The events one input phase polls.  Keys and repeats are told apart once
\* a keyboard controller exists: nothing reads them before.
EventSeqsOf(kinds) ==
    {<<>>} \cup {<<a>> : a \in kinds}
           \cup {<<a, b>> : a \in {e \in kinds : e.type # "QUIT"}, b \in kinds}
EventSeqs == EventSeqsOf(IF kbd.uDown # 0 THEN KeyKinds ELSE PlainKinds)

(* --------------------------- configurations --------------------------- *)
\* Layers the FEATHER_LAYER constructors register before main() runs; the
\* order the constructors run in is the order of the sequence.
StaticTemplates1 ==
    {[prio |-> -2, body |-> "noop"], [prio |-> -1, body |-> "noop"],
     [prio |-> 2, body |-> "noop"],
     [prio |-> -2, body |-> "addPos"], [prio |-> 1, body |-> "addNeg"]}
PlainTemplates == {[prio |-> -1, body |-> "noop"], [prio |-> 2, body |-> "noop"]}
StaticLayers1 ==
    {<<>>} \cup {<<a>> : a \in StaticTemplates1}
           \cup {<<a, b>> : a \in PlainTemplates, b \in StaticTemplates1}
           \cup {<<a, b>> : a \in StaticTemplates1 \ PlainTemplates, b \in PlainTemplates}
StaticLayers2 ==
    {<<[prio |-> -1, body |-> "noop"], [prio |-> 1, body |-> "noop"]>>,
     <<[prio |-> 1, body |-> "noop"], [prio |-> -2, body |-> "noop"]>>}

\* Controllers the user configuration creates: tControllerInit, then
\* optionally a delay (vPhysicsSetDelay) and the arming vPhysicsInit does.
SwapOnKeyUp == [type |-> "KEYUP", hnd |-> "swap", delay |-> 0, armed |-> FALSE]
CtrlTemplates ==
    {[type |-> "KEYDOWN", hnd |-> "noop", delay |-> 0, armed |-> FALSE],
     [type |-> "KEYDOWN", hnd |-> "slow", delay |-> 5, armed |-> FALSE],
     SwapOnKeyUp,
     [type |-> "KEYDOWN", hnd |-> "setDelay", delay |-> 0, armed |-> FALSE],
     [type |-> "KEYDOWN", hnd |-> "rearm", delay |-> 0, armed |-> FALSE],
     [type |-> "KEYDOWN", hnd |-> "respawn", delay |-> 0, armed |-> FALSE],
     [type |-> "USEREVENT", hnd |-> "rearm", delay |-> 0, armed |-> TRUE],
     [type |-> "USEREVENT", hnd |-> "rearm", delay |-> 5, armed |-> TRUE]}
CtrlConfigs ==
    {<<>>} \cup {<<a>> : a \in CtrlTemplates}
           \cup {<<SwapOnKeyUp, b>> : b \in CtrlTemplates}
           \cup {<<a, b>> : a \in {t \in CtrlTemplates : t.hnd = "rearm"},
                            b \in {t \in CtrlTemplates : t.hnd \in {"swap", "slow"}}}

\* Programs whose layers sleep (movement_2d.c, animation.c).
TurnOnKeyDown == [type |-> "KEYDOWN", hnd |-> "turn", delay |-> 0, armed |-> FALSE]
SleepLayers ==
    {<<[prio |-> 1, body |-> "sleep"]>>,
     <<[prio |-> -1, body |-> "noop"], [prio |-> 1, body |-> "animate"]>>,
     <<[prio |-> 1, body |-> "sleep"], [prio |-> 2, body |-> "calm"]>>,
     <<[prio |-> 1, body |-> "addPos"], [prio |-> 2, body |-> "animate"]>>}

\* Programs with a physics body (the bird of the flappy example).
FlyOnKeyDown == [type |-> "KEYDOWN", hnd |-> "fly", delay |-> 0, armed |-> FALSE]
PhysConfigs ==
    {[body |-> "DYNAMIC", forces |-> fs, delay |-> d, tube |-> "NONE"] :
        fs \in {<<>>, <<0>>, <<2>>, <<-1>>, <<1, 0>>}, d \in {0, 5}}
    \cup
    {[body |-> b, forces |-> <<0>>, delay |-> 0, tube |-> "NONE"] :
        b \in {"STATIC", "COLLIDER"}}

\* Programs with two bodies in collider group 0, created at the same place.
TubeConfigs ==
    {[body |-> b, forces |-> fs, delay |-> 0, tube |-> t] :
        b \in {"DYNAMIC", "STATIC"}, fs \in {<<>>, <<-1>>},
        t \in {"STATIC", "COLLIDER"}}

\* The user programs explored: what the constructors register in the two
\* scenes (l1, l2) and what vRuntimeConfig does (the start scene, the
\* controllers it creates).  The first family varies the layers, the
\* second the controllers, the last configures no scene at all.
LayerPrograms ==
    {p \in {[l1 |-> a, l2 |-> b, scene |-> sc, ctrls |-> cs, phys |-> NoPhysCfg] :
               a \in StaticLayers1, b \in StaticLayers2, sc \in Scenes,
               cs \in {<<>>, <<SwapOnKeyUp>>}} :
        /\ p.scene = 2 => Len(p.l1) <= 1
        /\ (p.ctrls # <<>> /\ Len(p.l1) = 2) => p.l2[1].prio = 1}
CtrlPrograms ==
    {p \in {[l1 |-> a, l2 |-> b, scene |-> 1, ctrls |-> cs, phys |-> NoPhysCfg] :
               a \in {<<>>, <<[prio |-> 2, body |-> "noop"], [prio |-> -1, body |-> "noop"]>>},
               b \in {<<[prio |-> -1, body |-> "noop"], [prio |-> 1, body |-> "noop"]>>},
               cs \in CtrlConfigs} :
        Len(p.l1) > 0 => Len(p.ctrls) <= 1}
NoScenePrograms ==
    {[l1 |-> <<[prio |-> -1, body |-> "noop"]>>, l2 |-> <<>>, scene |-> NoScene,
      ctrls |-> <<>>, phys |-> NoPhysCfg]}
MkCtrlPrograms ==
    {[l1 |-> a, l2 |-> <<[prio |-> -1, body |-> "mkCtrl"]>>, scene |-> 1,
      ctrls |-> <<SwapOnKeyUp>>, phys |-> NoPhysCfg] :
        a \in {<<>>, <<[prio |-> -1, body |-> "noop"], [prio |-> 1, body |-> "sleep"]>>}}
SleepPrograms ==
    {[l1 |-> a, l2 |-> <<>>, scene |-> 1, ctrls |-> <<TurnOnKeyDown>>,
      phys |-> NoPhysCfg] : a \in SleepLayers}
    \cup
    {[l1 |-> <<[prio |-> 1, body |-> b]>>, l2 |-> <<[prio |-> 1, body |-> "sleep"]>>,
      scene |-> 1, ctrls |-> <<>>, phys |-> NoPhysCfg] : b \in {"sleepOther", "armOther"}}
PhysPrograms ==
    {[l1 |-> <<[prio |-> -1, body |-> "physInit"]>>, l2 |-> <<>>, scene |-> 1,
      ctrls |-> cs, phys |-> ph] : cs \in {<<>>, <<FlyOnKeyDown>>}, ph \in PhysConfigs}
TubePrograms ==
    {[l1 |-> <<[prio |-> -1, body |-> "physInit"]>> \o mv, l2 |-> <<>>, scene |-> 1,
      ctrls |-> <<>>, phys |-> ph] :
        mv \in {<<>>, <<[prio |-> 1, body |-> "moveTubes"]>>}, ph \in TubeConfigs}
\* Programs with a handler that removes another controller: the one next
\* to it in the list, or one further down.
KickPrograms ==
    {[l1 |-> <<>>, l2 |-> <<>>, scene |-> 1, phys |-> NoPhysCfg,
      ctrls |-> [i \in 1..n |->
                   [type |-> "USEREVENT", hnd |-> IF i = n THEN "kick" ELSE "noop",
                    delay |-> 0, armed |-> TRUE]]] : n \in {2, 3}}
\* Programs whose layers swap the scene: in scene 1 a layer that does so
\* in each of its two runs and a one-shot layer after it, in scene 2 a
\* layer that swaps back.
SwapLayerPrograms ==
    {[l1 |-> <<[prio |-> -2, body |-> "swapL"], [prio |-> -1, body |-> "noop"]>>,
      l2 |-> <<[prio |-> 1, body |-> "swapL"]>>, scene |-> 1, ctrls |-> <<>>,
      phys |-> NoPhysCfg]}
\* Programs whose init layer creates drawables: rects and texts.
RectKinds == {[kind |-> k, prio |-> p] : k \in {"rect", "text"}, p \in {1, 2}}
RECURSIVE RectSeqs(_)
RectSeqs(n) ==
    IF n = 0 THEN {<<>>}
    ELSE RectSeqs(n - 1) \cup
         {Append(rs, r) : rs \in {q \in RectSeqs(n - 1) : Len(q) = n - 1}, r \in RectKinds}
RectPrograms ==
    {[l1 |-> <<[prio |-> -1, body |-> "mkRects"]>>, l2 |-> <<>>, scene |-> 1,
      ctrls |-> <<>>, phys |-> NoPhysCfg, rects |-> rs] : rs \in RectSeqs(MaxRects) \ {<<>>}}
\* A program with a keyboard controller (InitGameLayer of movement_2d.c).
KbdPrograms ==
    {[l1 |-> <<[prio |-> -1, body |-> "kbdInit"]>>, l2 |-> <<>>, scene |-> 1,
      ctrls |-> <<>>, phys |-> NoPhysCfg]}
WithRects(p, rs) ==
    [l1 |-> p.l1, l2 |-> p.l2, scene |-> p.scene, ctrls |-> p.ctrls, phys |-> p.phys,
     rects |-> rs]
Programs ==
    {WithRects(p, <<>>) :
        p \in TubePrograms \cup LayerPrograms \cup CtrlPrograms \cup NoScenePrograms
                \cup MkCtrlPrograms \cup SleepPrograms \cup PhysPrograms
                \cup KbdPrograms \cup KickPrograms \cup SwapLayerPrograms}
    \cup RectPrograms

RECURSIVE PushLayers(_, _, _)
PushLayers(ls, tpls, k) ==
    IF tpls = <<>> THEN ls
    ELSE PushLayers(tll_push_front(ls, tLayer(k + 1, Head(tpls).prio, Head(tpls).body)),
                    Tail(tpls), k + 1)

\* tControllerInit for each template, ids counter + 1, counter + 2, ...
RECURSIVE CreateControllers(_, _, _)
CreateControllers(sceneRec, tpls, counter) ==
    IF tpls = <<>> THEN sceneRec
    ELSE LET t == Head(tpls)
             c == [tController(counter + 1, t.type, t.hnd) EXCEPT
                     !.uDelay = t.delay, !.invoke = t.armed]
         IN CreateControllers(vSceneAppendController(sceneRec, c), Tail(tpls), counter + 1)

(* ------------------------------ actions -------------------------------- *)
InitEngine ==
    \E prog \in Programs :
      LET l1 == prog.l1
          l2 == prog.l2
      IN
        /\ cfg = [scene |-> prog.scene, ctrls |-> prog.ctrls, phys |-> prog.phys,
                  rects |-> prog.rects]
        /\ scenes = [sc \in Scenes |->
                       IF sc = 1
                       THEN [EmptyScene EXCEPT !.lLayers = PushLayers(<<>>, l1, 0)]
                       ELSE [EmptyScene EXCEPT !.lLayers = PushLayers(<<>>, l2, Len(l1))]]
        /\ nextName = Len(l1) + Len(l2)
        /\ reg = [n \in LayerNameSet |->
                    IF n <= Len(l1) THEN [prio |-> l1[n].prio, scene |-> 1]
                    ELSE IF n <= Len(l1) + Len(l2)
                         THEN [prio |-> l2[n - Len(l1)].prio, scene |-> 2]
                         ELSE [prio |-> 0, scene |-> NoScene]]
        /\ sScene = NoScene
        /\ now = 0
        /\ tLast = 0
        /\ tDelay = 0
        /\ pc = "boot"
        /\ err = 0
        /\ CONT_COUNTER = 0
        /\ runs = [n \in LayerNameSet |-> 0]
        /\ seen = [n \in LayerNameSet |-> 0]
        /\ fired = [c \in CtrlIdSet |-> 0]
        /\ lastFire = [c \in CtrlIdSet |-> -1]
        /\ polled = [t \in PolledTypes |-> 0]
        /\ tick = NoTick
        /\ inLog = <<>>
        /\ nTicks = 0
        /\ idLog = <<>>
        /\ iterLog = <<>>
        /\ debt0 = 0
        /\ dirChanged = FALSE
        /\ slp = [n \in LayerNameSet |-> SlpIdle]
        /\ phys = [b \in Bodies |-> NoPhys]
        /\ nextForce = 0
        /\ frc = [f \in 1..MaxForces |-> [made |-> FALSE, k |-> 0, applied |-> 0]]
        /\ uRectIDIncrementer = 0
        /\ kbd = NoKeyboard
        /\ keyLog = <<>>
        /\ hits = <<>>

(* --------------------------- combining forces -------------------------- *)
\* A double is kept as its signed square (sq = v * |v|), so that the square
\* root of an integer is exact and ordered as the doubles are; nan is the
\* not-a-number sqrt() returns for a negative argument.
dbl(n) == [nan |-> FALSE, sq |-> IF n < 0 THEN 0 - n * n ELSE n * n]
sqrt(r) == IF r < 0 THEN [nan |-> TRUE, sq |-> 0] ELSE [nan |-> FALSE, sq |-> r]
\* a > b on doubles: false when either side is not a number.
fgt(a, b) == ~a.nan /\ ~b.nan /\ a.sq > b.sq

\* physics.h: tForce (x, y, dSpeed, dMaxSpeed); iTimes is not used here.
tForce(x, y, dSpeed, dMaxSpeed) ==
    [x |-> x, y |-> y, dSpeed |-> dSpeed, dMaxSpeed |-> dMaxSpeed]
\* Directions with components -1..1 (not all of length one), speeds and
\* limits -1..MaxSpeed.
ForceInputs ==
    {tForce(x, y, s, m) : x \in (0 - 1)..1, y \in (0 - 1)..1,
                          s \in (0 - 1)..MaxSpeed, m \in (0 - 1)..MaxSpeed}

dDotProd(tMainForce, tForwardedForce) ==
    tMainForce.x * tForwardedForce.x + tMainForce.y * tForwardedForce.y
Radicand(tMainForce, tForwardedForce) ==
    tMainForce.dSpeed * tMainForce.dSpeed
    + tForwardedForce.dSpeed * tForwardedForce.dSpeed
    + 2 * tMainForce.dSpeed * tForwardedForce.dSpeed * dDotProd(tMainForce, tForwardedForce)

\* The speed vAppendForce leaves in tMainForce->dSpeed.
vAppendForceNoClamp(tMainForce, tForwardedForce) ==
    sqrt(Radicand(tMainForce, tForwardedForce))
vAppendForce(tMainForce, tForwardedForce) ==
    IF fgt(sqrt(Radicand(tMainForce, tForwardedForce)), dbl(tMainForce.dMaxSpeed))
    THEN dbl(tMainForce.dMaxSpeed)
    ELSE sqrt(Radicand(tMainForce, tForwardedForce))

NoForceTest ==
    [main |-> tForce(0, 0, 0, 0), fwd |-> tForce(0, 0, 0, 0), called |-> FALSE,
     dSpeed |-> dbl(0)]

Init == InitEngine /\ ovl = NoOverlapTest /\ af = NoForceTest

History == <<reg, runs, seen, fired, lastFire, polled, tick, inLog, nTicks, nextName, cfg,
             dirChanged, slp, phys, nextForce, frc, uRectIDIncrementer, kbd, keyLog, hits,
             ovl, af>>

\* errEngineInit returning an error: errMainLoop returns it at once.
InitFailsContinue(code) ==
    /\ pc' = "input"
    /\ err' = code
    /\ UNCHANGED <<now, tLast, tDelay, History, iterLog, debt0>>

InitFails(code) ==
    /\ pc' = "returned"
    /\ err' = code
    /\ UNCHANGED <<now, tLast, tDelay, History, iterLog, debt0>>

\* errMainLoop up to the top of its loop: errEngineInit (the backend
\* bring-up, the user configuration, the sort of the layers), tLast.
errEngineInit ==
    /\ pc = "boot"
    /\ \E sdl \in {"ok", "early", "late"} :
         LET cfgScene == cfg.scene
             cs == cfg.ctrls
         IN
         IF sdl = "early"
         THEN /\ InitFails(RetSdlErr)
              /\ UNCHANGED <<scenes, sScene, CONT_COUNTER, idLog>>
         ELSE IF cfgScene = NoScene
         THEN /\ InitFails(RetNoScene)
              /\ UNCHANGED <<scenes, sScene, CONT_COUNTER, idLog>>
         ELSE LET configured == [scenes EXCEPT ![cfgScene] =
                                   CreateControllers(@, cs, CONT_COUNTER)]
              IN /\ sScene' = cfgScene
                 /\ CONT_COUNTER' = CONT_COUNTER + Len(cs)
                 /\ idLog' = idLog \o [k \in 1..Len(cs) |-> CONT_COUNTER + k]
                 /\ IF sdl = "late"
                    THEN /\ scenes' = configured
                         /\ InitFails(RetSdlErr)
                    ELSE /\ scenes' = [configured EXCEPT ![cfgScene].lLayers = tll_sort(@)]
                         /\ tLast' = now
                         /\ pc' = "input"
                         /\ UNCHANGED <<now, tDelay, err, History, iterLog, debt0>>

\* errMainLoop lines 60-65: the clock is read (dt after the previous
\* reading: the render and the frame sleep took that long), the debt grows
\* by dt, then errEngineInputHandle polls every queued event.
InputStep(dt, evs) ==
    /\ pc = "input"
    /\ now + dt <= MaxTime
    /\ now' = now + dt
    /\ tDelay' = tDelay + ((now + dt) - tLast)
    /\ debt0' = tDelay + ((now + dt) - tLast)
    /\ tLast' = now + dt
    /\ iterLog' = <<"input">>
    /\ PolledTotal + Len(evs) <= MaxEvents
    /\ LET ip == PollLoop([sceneRec |-> scenes[sScene], log |-> <<>>,
                           polled |-> polled, exited |-> FALSE,
                           keyLog |-> keyLog, uDown |-> kbd.uDown],
                          evs, PolledTotal)
       IN /\ scenes' = [scenes EXCEPT ![sScene] = ip.sceneRec]
          /\ inLog' = ip.log
          /\ polled' = ip.polled
          /\ keyLog' = ip.keyLog
          /\ pc' = IF ip.exited THEN "exited" ELSE "update"
    /\ UNCHANGED <<sScene, err, CONT_COUNTER, nextName, reg, runs, seen,
                   fired, lastFire, tick, nTicks, cfg, idLog, dirChanged, slp,
                   phys, nextForce, frc, uRectIDIncrementer, kbd, hits, ovl, af>>

errEngineInputHandle ==
    \E dt \in FrameTimes : \E evs \in EventSeqs : InputStep(dt, evs)

\* errMainLoop line 68, the test of the while loop.
bUpdateDueStrict(debt) == debt > FEATHER_MS_PER_UPDATE
bUpdateDue(debt) == debt >= FEATHER_MS_PER_UPDATE

\* errMainLoop line 71: one step is taken off the debt.
DebtAfterTickReset(debt) == 0
DebtAfterTick(debt) == debt - FEATHER_MS_PER_UPDATE

\* Whether the block a handler frees can come back from the allocator, or
\* be overwritten, in the same tick: it matters only for a handler that
\* unlinks its node and creates another, or unlinks another node.
ReuseChoices ==
    IF \E i \in DOMAIN scenes[sScene].lControllers :
          scenes[sScene].lControllers[i].fHnd \in {"respawn", "kick"}
    THEN BOOLEAN ELSE {FALSE}

\* One pass of the while (tDelay >= FEATHER_MS_PER_UPDATE) loop.
errEngineUpdateHandle ==
    /\ pc = "update"
    /\ bUpdateDue(tDelay)
    /\ \E reuse \in ReuseChoices :
       LET st0 == [scenes |-> scenes, sScene |-> sScene, now |-> now,
                   uCtrlId |-> 0, uLayerId |-> 0,
                   ctrlLog |-> <<>>, layerLog |-> <<>>, callLog |-> <<>>,
                   swapLog |-> <<>>, uafRead |-> FALSE,
                   rmLog |-> <<>>, uafWrite |-> FALSE, reuse |-> reuse,
                   sleepLog |-> <<>>, self |-> 0, dirChanged |-> dirChanged,
                   slp |-> slp, phys |-> phys, nextForce |-> nextForce, frc |-> frc,
                   physLog |-> <<>>, warnLog |-> <<>>, guardLog |-> <<>>, cfg |-> cfg,
                   unlinkLog |-> <<>>,
                   CONT_COUNTER |-> CONT_COUNTER, idLog |-> idLog,
                   uRectIDIncrementer |-> uRectIDIncrementer,
                   kbd |-> kbd, hits |-> hits,
                   runs |-> runs, seen |-> seen, fired |-> fired,
                   lastFire |-> lastFire, nextName |-> nextName, reg |-> reg]
       IN \E r \in {UpdatePhase(st0)} :
          /\ scenes' = r.st.scenes
          /\ CONT_COUNTER' = r.st.CONT_COUNTER
          /\ idLog' = r.st.idLog
          /\ uRectIDIncrementer' = r.st.uRectIDIncrementer
          /\ kbd' = r.st.kbd
          /\ hits' = r.st.hits
          /\ dirChanged' = r.st.dirChanged
          /\ slp' = r.st.slp
          /\ phys' = r.st.phys
          /\ nextForce' = r.st.nextForce
          /\ frc' = r.st.frc
          /\ sScene' = r.st.sScene
          /\ now' = r.st.now
          /\ runs' = r.st.runs
          /\ seen' = r.st.seen
          /\ fired' = r.st.fired
          /\ lastFire' = r.st.lastFire
          /\ nextName' = r.st.nextName
          /\ reg' = r.st.reg
          /\ tick' = [sc0 |-> r.sc0, scL |-> r.scL, t0 |-> now,
                      ctrls0 |-> r.ctrls0, layers0 |-> r.layers0,
                      ctrlLog |-> r.st.ctrlLog, layerLog |-> r.st.layerLog,
                      callLog |-> r.st.callLog, swapLog |-> r.st.swapLog,
                      uafRead |-> r.st.uafRead, rmLog |-> r.st.rmLog,
                      uafWrite |-> r.st.uafWrite, sleepLog |-> r.st.sleepLog,
                      physLog |-> r.st.physLog, warnLog |-> r.st.warnLog,
                      guardLog |-> r.st.guardLog, unlinkLog |-> r.st.unlinkLog]
    /\ tDelay' = DebtAfterTick(tDelay)
    /\ nTicks' = nTicks + 1
    /\ iterLog' = Append(iterLog, "update")
    /\ UNCHANGED <<tLast, pc, err, polled, inLog, cfg, debt0, keyLog, ovl, af>>

\* The debt is below one step: render, sleep out the frame, loop.
errEngineRenderHandleInLoop ==
    /\ pc = "update"
    /\ Len(iterLog) < 4
    /\ iterLog' = Append(iterLog, "render")
    /\ \/ pc' = "update"
       \/ ~bUpdateDue(tDelay) /\ pc' = "input"
    /\ UNCHANGED <<scenes, sScene, now, tLast, tDelay, err, CONT_COUNTER, History,
                   idLog, debt0>>

errEngineRenderHandle ==
    /\ pc = "update"
    /\ ~bUpdateDue(tDelay)
    /\ pc' = "input"
    /\ iterLog' = Append(iterLog, "render")
    /\ UNCHANGED <<scenes, sScene, now, tLast, tDelay, err, CONT_COUNTER, History,
                   idLog, debt0>>

Next ==
    \/ errEngineInit
    \/ errEngineInputHandle
    \/ errEngineUpdateHandle
    \/ errEngineRenderHandle

Spec == Init /\ [][Next]_vars

(* ------------------------ the loop keeps running ----------------------- *)
\* The programs with one controller on a polled event type and no layer in
\* the start scene.  errMainLoop is a for (;;) on one thread: a phase that
\* can run does run, and the clock SDL_GetTicks reads keeps advancing (up to
\* the bound of the model's clock).
InitLive ==
    /\ Init
    /\ cfg.scene = 1
    /\ Len(cfg.ctrls) = 1 /\ cfg.ctrls[1].type \in PolledTypes
    /\ scenes[1].lLayers = <<>>

\* An iteration whose reading of the clock is later than the previous one
\* and that finds the event queue empty.
TimeAdvances == \E dt \in FrameTimes \ {0} : InputStep(dt, <<>>)

\* The while loop of errMainLoop (line 68) runs an update tick whenever the
\* debt is due; every tick lowers the debt (line 71), so weak fairness of
\* errEngineUpdateHandle is this recurrence of its enabling condition
\* being false.
UpdateProgress == []<>(~(pc = "update" /\ bUpdateDue(tDelay)))

SpecLive ==
    /\ InitLive /\ [][Next]_vars
    /\ WF_vars(errEngineInit) /\ WF_vars(errEngineRenderHandle)
    /\ SF_vars(TimeAdvances)
    /\ UpdateProgress

(* ----------------------- the collision test alone ---------------------- *)
\* checkCollision called on two labels, in both orders, before the engine
\* starts.
InitOverlap ==
    /\ InitEngine
    /\ cfg.scene = NoScene
    /\ \E a \in Boxes, b \in Boxes :
          ovl = [NoOverlapTest EXCEPT !.a = a, !.b = b]
    /\ af = NoForceTest

CallCheckCollision ==
    /\ pc = "boot"
    /\ ~ovl.called
    /\ ovl' = [ovl EXCEPT !.called = TRUE,
                          !.ab = checkCollision(ovl.a, ovl.b),
                          !.ba = checkCollision(ovl.b, ovl.a)]
    /\ UNCHANGED <<scenes, sScene, now, tLast, tDelay, pc, err, CONT_COUNTER,
                   idLog, iterLog, debt0, reg, runs, seen, fired, lastFire, polled,
                   tick, inLog, nTicks, nextName, cfg, dirChanged, slp, phys,
                   nextForce, frc, uRectIDIncrementer, kbd, keyLog, hits, af>>

NextOverlap == CallCheckCollision

SpecOverlap == InitOverlap /\ [][NextOverlap]_vars

(* ------------------------ vAppendForce alone --------------------------- *)
InitForce ==
    /\ InitEngine
    /\ cfg.scene = NoScene
    /\ ovl = NoOverlapTest
    /\ \E m \in ForceInputs, f \in ForceInputs :
          /\ f.dMaxSpeed = 0
          /\ af = [NoForceTest EXCEPT !.main = m, !.fwd = f]

CallAppendForce ==
    /\ pc = "boot"
    /\ ~af.called
    /\ af' = [af EXCEPT !.called = TRUE, !.dSpeed = vAppendForce(af.main, af.fwd)]
    /\ UNCHANGED <<scenes, sScene, now, tLast, tDelay, pc, err, CONT_COUNTER,
                   idLog, iterLog, debt0, reg, runs, seen, fired, lastFire, polled,
                   tick, inLog, nTicks, nextName, cfg, dirChanged, slp, phys,
                   nextForce, frc, uRectIDIncrementer, kbd, keyLog, hits, ovl>>

NextForce == CallAppendForce

SpecForce == InitForce /\ [][NextForce]_vars

(* ======================== properties: scheduler ======================== *)
Registered(n) == reg[n].scene # NoScene
Linked(n) == \E sc \in Scenes : HasLayer(scenes[sc].lLayers, n)
LayerOf(n) ==
    LET sc == CHOOSE x \in Scenes : HasLayer(scenes[x].lLayers, n)
    IN scenes[sc].lLayers[LayerIdx(scenes[sc].lLayers, n)]
\* exit() has not been called: the lists have not been freed.
Alive == pc # "exited"
TimesRun(n) == Cardinality({i \in DOMAIN tick.layerLog : tick.layerLog[i].sName = n})
Sorted(ls) == \A i, j \in DOMAIN ls : i < j => ls[i].iPriority <= ls[j].iPriority

\* C1 (as stated): a layer registered with priority -N runs once in each of
\* the first N layer loops over its scene, N times in total, and once it has
\* run N times it is no longer in the layer sequence.
C1_Original ==
    \A n \in LayerNameSet :
        (Alive /\ Registered(n) /\ reg[n].prio < 0) =>
            /\ runs[n] = Min(seen[n], 0 - reg[n].prio)
            /\ (runs[n] = 0 - reg[n].prio => ~Linked(n))

\* C1 (amended): a layer registered with priority -N runs once in each of
\* the first N layer loops over its scene and never again; while linked its
\* priority is -N plus the number of runs, so after the N-th run it stays in
\* the sequence with priority 0; the (N+1)-th loop unlinks it without
\* running it.
C1_NShot ==
    \A n \in LayerNameSet :
        (Alive /\ Registered(n) /\ reg[n].prio < 0) =>
            LET N == 0 - reg[n].prio
            IN /\ runs[n] = Min(seen[n], N)
               /\ seen[n] <= N + 1
               /\ Linked(n) => /\ LayerOf(n).iPriority = runs[n] - N
                               /\ seen[n] <= N
               /\ ~Linked(n) => /\ runs[n] = N
                                /\ seen[n] = N + 1

C1_Witness ==
    \E n \in LayerNameSet :
        /\ Alive /\ Registered(n) /\ reg[n].prio = -2
        /\ runs[n] = 2 /\ seen[n] = 3 /\ ~Linked(n)

\* C2 (as stated): between update ticks no linked layer has priority 0.
C2_Original ==
    \A sc \in Scenes : \A i \in DOMAIN scenes[sc].lLayers :
        scenes[sc].lLayers[i].iPriority # 0

\* C2 (amended): the tick that increments a priority to 0 leaves the layer
\* linked; a layer that enters a layer loop with priority 0 is unlinked by
\* that loop without being run.  So a linked layer with priority 0 is one
\* that has just had its last run.
C2_ZeroUnlinkedNextTick ==
    Alive =>
      /\ \A i \in DOMAIN tick.layers0 :
            LET l == tick.layers0[i]
            IN /\ l.iPriority = 0 =>
                    /\ ~HasLayer(scenes[tick.scL].lLayers, l.sName)
                    /\ TimesRun(l.sName) = 0
               /\ l.iPriority = -1 =>
                    /\ HasLayer(scenes[tick.scL].lLayers, l.sName)
                    /\ LayerOf(l.sName).iPriority = 0
                    /\ TimesRun(l.sName) = 1
      /\ \A n \in LayerNameSet :
            (Linked(n) /\ LayerOf(n).iPriority = 0) =>
                /\ reg[n].prio < 0
                /\ runs[n] = 0 - reg[n].prio
                /\ seen[n] = runs[n]

C2_Witness ==
    /\ Alive
    /\ \E i \in DOMAIN tick.layers0 :
          /\ tick.layers0[i].iPriority = 0
          /\ ~Linked(tick.layers0[i].sName)
    /\ \E n \in LayerNameSet : Linked(n) /\ LayerOf(n).iPriority = 0

\* C3: a layer with priority > 0 that is linked when a layer loop starts is
\* run exactly once by that loop, keeps its priority and stays linked; so a
\* layer registered with a positive priority has run in every loop over its
\* scene since, and is never unlinked by the scheduler.
C3_SteadyLayers ==
    Alive =>
      /\ \A i \in DOMAIN tick.layers0 :
            LET l == tick.layers0[i]
            IN l.iPriority > 0 =>
                 /\ TimesRun(l.sName) = 1
                 /\ HasLayer(scenes[tick.scL].lLayers, l.sName)
                 /\ LayerOf(l.sName).iPriority = l.iPriority
      /\ \A n \in LayerNameSet :
            (Registered(n) /\ reg[n].prio > 0) =>
                /\ Linked(n)
                /\ LayerOf(n).iPriority = reg[n].prio
                /\ runs[n] = seen[n]

C3_Witness ==
    \E n \in LayerNameSet :
        /\ Alive /\ Registered(n) /\ reg[n].prio > 0
        /\ runs[n] = 3 /\ nTicks = 3 /\ Linked(n)

\* C4: right after errEngineInit, and right after every vRuntimeSwapScene,
\* the layers of the active scene are in ascending order of priority (so
\* every negative priority is before every positive one).
C4_SortedOnActivation ==
    /\ (pc = "input" /\ nTicks = 0) => Sorted(scenes[sScene].lLayers)
    /\ \A k \in DOMAIN tick.swapLog : Sorted(tick.swapLog[k].layers)

C4_Witness ==
    \E k \in DOMAIN tick.swapLog :
        LET ls == tick.swapLog[k].layers
        IN /\ \E i \in DOMAIN ls : ls[i].iPriority < 0
           /\ \E i \in DOMAIN ls : ls[i].iPriority > 0
           /\ tick.swapLog[k].to = sScene

\* C5 (as stated): within one tick no layer run with a positive priority
\* precedes a layer run with a negative priority.
C5_Original ==
    \A i, j \in DOMAIN tick.layerLog :
        i < j => ~(tick.layerLog[i].prio > 0 /\ tick.layerLog[j].prio < 0)

(* ========================= properties: dispatch ======================== *)
\* The controllers the configuration created have ids 1, 2, ... in order.
CtrlCreated(id) == id \in 1..Len(cfg.ctrls) /\ pc \notin {"boot"} /\ CONT_COUNTER >= id
\* A controller that nothing but the input phase arms.
ArmedOnlyByInput(id) == ~cfg.ctrls[id].armed /\ cfg.ctrls[id].hnd # "rearm"
CtrlOf(sc, id) == scenes[sc].lControllers[CtrlIdx(scenes[sc].lControllers, id)]
\* The dispatch loop visits the controllers linked when the tick started,
\* in order, but for those a handler of this tick unlinked before the loop
\* took their node.
Visited(id) == \E k \in DOMAIN tick.ctrlLog : tick.ctrlLog[k].id = id
VisitsAll ==
    /\ \A i \in DOMAIN tick.ctrls0 :
          \/ Visited(tick.ctrls0[i].uControllerID)
          \/ \E k \in DOMAIN tick.rmLog : tick.rmLog[k].id = tick.ctrls0[i].uControllerID
    /\ \A k \in DOMAIN tick.ctrlLog : HasCtrl(tick.ctrls0, tick.ctrlLog[k].id)
    /\ \A j, k \in DOMAIN tick.ctrlLog :
          j < k => CtrlIdx(tick.ctrls0, tick.ctrlLog[j].id)
                      < CtrlIdx(tick.ctrls0, tick.ctrlLog[k].id)

\* C6 (as stated): a controller that the dispatch loop finds pending with
\* now >= lastInvoked + delay is fired: the flag is cleared before the
\* handler runs and lastInvoked becomes the time at which the handler returns.
C6_Original ==
    /\ VisitsAll
    /\ \A k \in DOMAIN tick.ctrlLog :
          LET e == tick.ctrlLog[k]
          IN (e.pending /\ e.t >= e.last + e.delay) =>
                /\ e.fired
                /\ ~e.invokeAtCall
                /\ e.lastAfter = e.tAfter

\* C6 (amended): the test is strict.  A pending controller is fired when
\* now > lastInvoked + delay; at now = lastInvoked + delay it is not fired
\* and stays pending with lastInvoked unchanged.
C6_FiredWhenStrictlyDue ==
    /\ VisitsAll
    /\ \A k \in DOMAIN tick.ctrlLog :
          LET e == tick.ctrlLog[k]
          IN /\ (e.pending /\ e.t > e.last + e.delay) =>
                   /\ e.fired
                   /\ ~e.invokeAtCall
                   /\ e.lastAfter = e.tAfter
             /\ (e.pending /\ e.t = e.last + e.delay) =>
                   /\ ~e.fired
                   /\ e.invokeAfter
                   /\ e.lastAfter = e.last

C6_Witness ==
    \E k \in DOMAIN tick.ctrlLog :
        LET e == tick.ctrlLog[k]
        IN /\ e.pending /\ e.delay > 0 /\ e.t > e.last + e.delay
           /\ e.fired /\ e.lastAfter = e.tAfter /\ e.tAfter > e.t

\* C7: a handler is only invoked at a time now >= lastInvoked + delay, and
\* two consecutive invocations of a controller are at least delay apart.
C7_Throttle ==
    \A k \in DOMAIN tick.ctrlLog :
        LET e == tick.ctrlLog[k]
        IN e.fired =>
             /\ e.t >= e.last + e.delay
             /\ e.prevFire >= 0 => e.t - e.prevFire >= e.delay

C7_Witness ==
    \E k \in DOMAIN tick.ctrlLog :
        LET e == tick.ctrlLog[k]
        IN e.fired /\ e.prevFire >= 0 /\ e.delay > 0

\* C8: for each polled event and each controller of the active scene that
\* is not pending, the input phase sets pending to (subscribed type = event
\* type) and stores the event as the controller's payload.
C8_InputMarks ==
    \A k \in DOMAIN inLog :
        LET e == inLog[k]
        IN ~e.before =>
             /\ e.after = (e.type = e.ev.type)
             /\ e.payloadAfter = e.ev

C8_Witness ==
    /\ \E k \in DOMAIN inLog :
          ~inLog[k].before /\ inLog[k].after /\ inLog[k].payloadAfter = inLog[k].ev
    /\ \E k \in DOMAIN inLog :
          ~inLog[k].before /\ ~inLog[k].after /\ inLog[k].payloadAfter = inLog[k].ev

\* C9: a controller armed only by the input phase has fired at most as many
\* times as events of its subscribed type have been polled.
C9_AtMostOncePerEvent ==
    \A id \in CtrlIdSet :
        (CtrlCreated(id) /\ ArmedOnlyByInput(id)) =>
            fired[id] <= polled[cfg.ctrls[id].type]

C9_Witness ==
    \E id \in CtrlIdSet :
        /\ CtrlCreated(id) /\ ArmedOnlyByInput(id)
        /\ fired[id] = 1
        /\ polled[cfg.ctrls[id].type] = 2

\* C10: a controller whose handler re-arms it is pending when the handler
\* has returned and stays pending after the tick; when the dispatch loop
\* next finds it with its delay elapsed it fires again, with no input event.
C10_SelfRearm ==
    \A k \in DOMAIN tick.ctrlLog :
        LET e == tick.ctrlLog[k]
        IN e.hnd = "rearm" =>
             /\ e.fired =>
                  /\ e.invokeAfter
                  /\ Alive => CtrlOf(tick.sc0, e.id).invoke
             /\ (e.pending /\ e.t > e.last + e.delay) => e.fired

C10_Witness ==
    /\ PolledTotal = 0
    /\ \E k \in DOMAIN tick.ctrlLog :
          LET e == tick.ctrlLog[k]
          IN e.hnd = "rearm" /\ e.fired /\ e.prevFire >= 0 /\ fired[e.id] >= 2

(* ===================== properties: tick, ids, removal ================== *)
\* C11: in every update tick all controller handlers that fire are invoked
\* before any layer body is invoked.
C11_ControllersBeforeLayers ==
    \A i, j \in DOMAIN tick.callLog :
        (tick.callLog[i].kind = "ctrl" /\ tick.callLog[j].kind = "layer") => i < j

C11_Witness ==
    /\ Cardinality({i \in DOMAIN tick.callLog : tick.callLog[i].kind = "ctrl"}) >= 2
    /\ Cardinality({i \in DOMAIN tick.callLog : tick.callLog[i].kind = "layer"}) >= 2

\* C12: every id tControllerInit returns is greater than all ids returned
\* before; no two linked controllers, in whatever scenes, share an id, every
\* linked controller carries an id that was handed out, and an id whose
\* controller was removed is not handed out again.
C12_FreshIds ==
    /\ \A i, j \in DOMAIN idLog : i < j => idLog[i] < idLog[j]
    /\ \A s1, s2 \in Scenes :
         \A i \in DOMAIN scenes[s1].lControllers :
           \A j \in DOMAIN scenes[s2].lControllers :
             (scenes[s1].lControllers[i].uControllerID =
              scenes[s2].lControllers[j].uControllerID) => (s1 = s2 /\ i = j)
    /\ \A sc \in Scenes : \A i \in DOMAIN scenes[sc].lControllers :
         \E k \in DOMAIN idLog : idLog[k] = scenes[sc].lControllers[i].uControllerID
    /\ \A k \in DOMAIN tick.rmLog :
         Cardinality({i \in DOMAIN idLog : idLog[i] = tick.rmLog[k].id}) <= 1

C12_Witness ==
    /\ Len(idLog) = 3
    /\ \E k \in DOMAIN tick.rmLog :
          /\ HasCtrl(tick.rmLog[k].before, tick.rmLog[k].id)
          /\ tick.rmLog[k].id = 2
    /\ \E sc \in Scenes : HasCtrl(scenes[sc].lControllers, 3)
    /\ \A sc \in Scenes :
          ~HasCtrl(scenes[sc].lControllers, 1) /\ ~HasCtrl(scenes[sc].lControllers, 2)

\* C13: vSceneRemoveController with an id that no controller of the scene
\* carries leaves the controller sequence, and every controller in it, as
\* it was; whatever the first call did, a second call with the same id
\* changes nothing.
C13_RemoveIdempotent ==
    \A k \in DOMAIN tick.rmLog :
        LET e == tick.rmLog[k]
            again == vSceneRemoveController(
                         [EmptyScene EXCEPT !.lControllers = e.after], e.id)
        IN /\ ~HasCtrl(e.before, e.id) => e.after = e.before
           /\ again.lControllers = e.after
           /\ ~HasCtrl(e.after, e.id)

C13_Witness ==
    \E k \in DOMAIN tick.rmLog :
        /\ ~HasCtrl(tick.rmLog[k].before, tick.rmLog[k].id)
        /\ tick.rmLog[k].before # <<>>
        /\ tick.rmLog[k].after = tick.rmLog[k].before

(* ======================== properties: main loop ======================== *)
Count(log, x) == Cardinality({i \in DOMAIN log : log[i] = x})

\* C17: a pass of the main loop is the input phase, then update ticks, then
\* one render: the first phase of a pass is the input phase and it occurs
\* once, nothing follows the render, and the loop is past the render exactly
\* when the pass has rendered.
C17_PhaseOrder ==
    iterLog # <<>> =>
        /\ iterLog[1] = "input"
        /\ Count(iterLog, "input") = 1
        /\ Count(iterLog, "render") <= 1
        /\ \A i \in DOMAIN iterLog : iterLog[i] = "render" => i = Len(iterLog)
        /\ \A i \in 2..Len(iterLog) : iterLog[i] \in {"update", "render"}
        /\ (pc = "update") => Count(iterLog, "render") = 0
        /\ (pc = "input") => iterLog[Len(iterLog)] = "render"

C17_Witness ==
    /\ pc = "input"
    /\ iterLog = <<"input", "update", "update", "render">>

\* C18: with debt0 the debt right after the elapsed time was added, every
\* update tick of the pass takes exactly one step off the debt, the pass
\* runs debt0 \div step ticks, and the render starts with 0 <= debt < step.
C18_DebtAccounting ==
    iterLog # <<>> =>
        /\ tDelay = debt0 - FEATHER_MS_PER_UPDATE * Count(iterLog, "update")
        /\ tDelay >= 0
        /\ Count(iterLog, "render") = 1 =>
              /\ Count(iterLog, "update") = debt0 \div FEATHER_MS_PER_UPDATE
              /\ tDelay < FEATHER_MS_PER_UPDATE

C18_Witness ==
    /\ Count(iterLog, "render") = 1
    /\ debt0 = 25
    /\ Count(iterLog, "update") = 2
    /\ tDelay = 5

(* ======================== properties: layer sleep ====================== *)
Checks == {k \in DOMAIN tick.sleepLog : tick.sleepLog[k].op = "check"}
AllLayers == UNION {{scenes[sc].lLayers[i] : i \in DOMAIN scenes[sc].lLayers} : sc \in Scenes}

\* C14 (as stated): a check of a non-zero deadline reports "just elapsed"
\* (-1) and resets the deadline when now >= deadline, "still waiting" (1)
\* with the deadline unchanged when now < deadline.
C14_Original ==
    \A k \in Checks :
        LET e == tick.sleepLog[k]
        IN e.before # 0 =>
             /\ e.t >= e.before => (e.res = -1 /\ e.after = 0)
             /\ e.t < e.before => (e.res = 1 /\ e.after = e.before)

\* C14 (amended): the test is strict.  A check of a non-zero deadline
\* reports "just elapsed" and resets the deadline to 0 when now > deadline;
\* when now <= deadline, the instant now = deadline included, it reports
\* "still waiting" and leaves the deadline unchanged.
C14_ElapsedStrictlyAfter ==
    \A k \in Checks :
        LET e == tick.sleepLog[k]
        IN e.before # 0 =>
             /\ e.t > e.before => (e.res = -1 /\ e.after = 0)
             /\ e.t <= e.before => (e.res = 1 /\ e.after = e.before)

C14_Witness ==
    \E k \in Checks :
        LET e == tick.sleepLog[k]
        IN e.before # 0 /\ e.t = e.before /\ e.res = 1 /\ e.after = e.before

\* C15 (as stated): a layer that is not sleeping checks as "not sleeping"
\* (0); armed at t for ms, it checks as "still waiting" at every time
\* before t + ms and as "just elapsed" at the first check at or after
\* t + ms, which puts it back to not sleeping.
C15_Original ==
    \A k \in Checks :
        LET e == tick.sleepLog[k]
        IN /\ e.g.phase = "idle" => e.res = 0
           /\ e.g.phase = "armed" =>
                /\ e.t < e.g.armAt + e.g.ms => e.res = 1
                /\ e.t >= e.g.armAt + e.g.ms => (e.res = -1 /\ e.after = 0)

\* C15 (amended): a layer that is not sleeping checks as "not sleeping";
\* an arm at t for ms sets the deadline t + ms; every check at a time up to
\* and including t + ms reports "still waiting"; the first check after
\* t + ms reports "just elapsed" and resets the deadline, so that the layer
\* is not sleeping again until it is armed again.
C15_RoundTrip ==
    /\ \A k \in DOMAIN tick.sleepLog :
          LET e == tick.sleepLog[k]
          IN /\ (e.op = "arm") => e.after = e.t + SleepMs
             /\ (e.op = "check" /\ e.g.phase = "idle") =>
                    (e.before = 0 /\ e.res = 0 /\ e.after = 0)
             /\ (e.op = "check" /\ e.g.phase = "armed") =>
                    /\ e.before = e.g.armAt + e.g.ms
                    /\ e.t <= e.g.armAt + e.g.ms => (e.res = 1 /\ e.after = e.before)
                    /\ e.t > e.g.armAt + e.g.ms => (e.res = -1 /\ e.after = 0)
    /\ \A l \in AllLayers :
          /\ slp[l.sName].phase = "idle" <=> l.uLastSleep = 0
          /\ slp[l.sName].phase = "armed" =>
                 l.uLastSleep = slp[l.sName].armAt + slp[l.sName].ms

C15_Witness ==
    \E k \in Checks :
        LET e == tick.sleepLog[k]
        IN /\ e.g.phase = "idle" /\ e.g.trips >= 1 /\ e.res = 0
           /\ slp[e.target].phase = "armed"

\* C16 (as stated): a call of vRuntimeUnsleepCurrentLayer from a layer body
\* changes the deadline of the calling layer and of no other; with false the
\* layer is not sleeping afterwards, with true its next check reports "just
\* elapsed".
C16_Original ==
    \A k \in DOMAIN tick.sleepLog :
        LET e == tick.sleepLog[k]
        IN /\ (e.op = "unsleep") =>
                /\ e.target = e.caller
                /\ ~e.flag => e.after = 0
           /\ (e.op = "check" /\ e.g.phase = "forced") => e.res = -1

(* ========================== properties: physics ======================== *)
ForceLinked(f) ==
    \E b \in Bodies : \E j \in DOMAIN phys[b].tAdditionalForces :
        phys[b].tAdditionalForces[j].id = f

C20_Original ==
    phys[1].eBodyType = "DYNAMIC" =>
      \A f \in 1..MaxForces :
        (frc[f].made /\ frc[f].k >= 0) =>
            LET n == IF frc[f].k = 0 THEN 1 ELSE frc[f].k
            IN /\ frc[f].applied <= n
               /\ ForceLinked(f) <=> frc[f].applied < n

(* ========================= properties: collisions ====================== *)
Solid(kind) == kind \in {"DYNAMIC", "STATIC"}
LabelOf(cols, id) == cols[CHOOSE j \in DOMAIN cols : cols[j].uColliderId = id]
HasLabel(cols, id) == \E j \in DOMAIN cols : cols[j].uColliderId = id
ListIds(ls) == {ls[j].uColliderId : j \in DOMAIN ls}
NoRepeats(ls) == \A i, j \in DOMAIN ls : ls[i].uColliderId = ls[j].uColliderId => i = j

\* C21 (as stated): when the handler of a DYNAMIC or STATIC body returns,
\* lCurrentlyCollides holds exactly the other labels of the body's group
\* that overlap the body's label, each once: nothing of an earlier
\* invocation is left in it.
C21_Original ==
    \A k \in DOMAIN tick.physLog :
       LET e == tick.physLog[k]
       IN (Solid(e.body) /\ HasLabel(e.cols, e.id)) =>
             /\ NoRepeats(e.collides)
             /\ ListIds(e.collides) =
                  {e.cols[j].uColliderId : j \in
                     {i \in DOMAIN e.cols :
                        /\ e.cols[i].uColliderId # e.id
                        /\ e.cols[i].uCollidersGroup = e.box.uCollidersGroup
                        /\ checkCollision(LabelOf(e.cols, e.id), e.cols[i])}}

\* Whether the boxes of bodies b and c overlap when the invocation e of b's
\* handler returns: the rects, the labels in the scene, the copy tCol.
RectsOverlap(e, c) == checkCollision(e.boxes[e.b], e.boxes[c])
LabelsOverlap(e, c) ==
    checkCollision(LabelOf(e.cols, e.id), LabelOf(e.cols, e.boxes[c].uColliderId))
CopyOverlaps(e, c) == checkCollision(e.tCol, LabelOf(e.cols, e.boxes[c].uColliderId))

\* C22 (as stated): for two DYNAMIC/STATIC bodies of one group, after an
\* invocation of the handler of one of them bPhysicsCurrentlyCollides is
\* true when their boxes overlap, and false when their boxes are apart
\* (rects, labels and the copy tCol all apart).
C22_Original ==
    \A k \in DOMAIN tick.physLog :
       LET e == tick.physLog[k]
       IN \A c \in Bodies \ {e.b} :
            (/\ Solid(e.body) /\ Solid(phys[c].eBodyType)
             /\ HasLabel(e.cols, e.id) /\ HasLabel(e.cols, e.boxes[c].uColliderId)) =>
               /\ (RectsOverlap(e, c) /\ LabelsOverlap(e, c) /\ CopyOverlaps(e, c))
                     => e.collides # <<>>
               /\ (~RectsOverlap(e, c) /\ ~LabelsOverlap(e, c) /\ ~CopyOverlaps(e, c))
                     => e.collides = <<>>

\* The bodies overlapped (both lists were filled), the tube was then moved
\* away, and the bird's handler has run again with the boxes apart.
C22_Scenario ==
    \E k \in DOMAIN tick.physLog :
       LET e == tick.physLog[k]
       IN /\ e.b = 1 /\ Solid(e.body) /\ Solid(phys[2].eBodyType)
          /\ ~RectsOverlap(e, 2) /\ ~LabelsOverlap(e, 2) /\ ~CopyOverlaps(e, 2)
          /\ e.collides # <<>>

(* ====================== properties: error handling ===================== *)
\* C23: when errEngineInit fails (no scene after vRuntimeConfig, or the
\* backend bring-up fails) errMainLoop returns that error and no input,
\* update or render phase has run: nothing was polled, no tick executed.
C23_InitFailureReturns ==
    /\ err # 0 => pc = "returned"
    /\ pc = "returned" =>
          /\ err \in {RetNoScene, RetSdlErr}
          /\ nTicks = 0 /\ iterLog = <<>> /\ PolledTotal = 0
          /\ tick = NoTick /\ inLog = <<>>
    /\ (cfg.scene = NoScene /\ pc # "boot") =>
          (pc = "returned" /\ err \in {RetNoScene, RetSdlErr})

C23_Witness == pc = "returned" /\ err = RetNoScene /\ cfg.scene = NoScene

\* C25 (as stated): once a quit event has been polled the four lists of the
\* active scene (layers, controllers, rects, collider labels) are released
\* and the process has ended in the input phase: no update or render
\* follows.
C25_Original ==
    pc = "exited" =>
       /\ scenes[sScene].lLayers = <<>>
       /\ scenes[sScene].lControllers = <<>>
       /\ scenes[sScene].lRects = <<>>
       /\ scenes[sScene].lColliders = <<>>
       /\ iterLog = <<"input">>

\* What vFeatherExit does release, and that the process ends there.
C25_ThreeListsReleased ==
    pc = "exited" =>
       /\ scenes[sScene].lLayers = <<>>
       /\ scenes[sScene].lControllers = <<>>
       /\ scenes[sScene].lRects = <<>>
       /\ iterLog = <<"input">>

\* C26 (as stated): a sleep check or arm naming a layer the active scene
\* does not have is logged and does nothing more: the deadlines of the
\* scene's layers stay as they were and the caller's guarded block is not
\* run on account of the check.
C26_Original ==
    \A k \in DOMAIN tick.warnLog :
       LET e == tick.warnLog[k]
       IN /\ \A i \in DOMAIN e.deadlines :
               i \in DOMAIN scenes[tick.scL].lLayers =>
                  scenes[tick.scL].lLayers[i].uLastSleep = e.deadlines[i]
          /\ ~\E j \in DOMAIN tick.guardLog :
                /\ tick.guardLog[j].caller = e.caller
                /\ tick.guardLog[j].target = e.target

(* ========================= properties: scenes ========================== *)
\* C27: vRuntimeSwapScene leaves the scene it swaps away from as it is
\* (layers with their priorities and deadlines, controllers, rects), and no
\* step without a swap changes a scene that is not the active one; so
\* after a swap back a layer registered with -n has still run at most n
\* times and the scene is as it was left.
C27_LeftAsItWas ==
    /\ \A k \in DOMAIN tick.swapLog :
          tick.swapLog[k].leftAfter = tick.swapLog[k].leftBefore
    /\ \A n \in LayerNameSet : reg[n].prio < 0 => runs[n] <= 0 - reg[n].prio

C27_InactiveUntouched ==
    (nTicks' = nTicks \/ tick'.swapLog = <<>>) =>
       \A sc \in Scenes : (sc # sScene /\ sc # sScene') => scenes'[sc] = scenes[sc]

C27_SwapKeepsLeftScene == []C27_LeftAsItWas /\ [][C27_InactiveUntouched]_vars

\* A swap back to scene 1, whose one-shot layer had run before the scene
\* was left and whose other layer still has the deadline it was left with.
C27_Witness ==
    /\ \E k \in DOMAIN tick.swapLog :
          /\ tick.swapLog[k].to = 1 /\ tick.swapLog[k].from = 2
          /\ \E i \in DOMAIN tick.swapLog[k].layers :
                tick.swapLog[k].layers[i].uLastSleep > 0
    /\ \E n \in LayerNameSet :
          reg[n].scene = 1 /\ reg[n].prio = -1 /\ runs[n] = 1

(* ======================== properties: keyboard ========================= *)
\* How often the user's handler was invoked for the event of that serial.
HitsFor(serial) == Cardinality({i \in DOMAIN hits : hits[i].serial = serial})

\* The key-down controller of the keyboard is pending with the event e.
PendingWith(e) ==
    \E sc \in Scenes : \E i \in DOMAIN scenes[sc].lControllers :
        /\ scenes[sc].lControllers[i].uControllerID = kbd.uDown
        /\ scenes[sc].lControllers[i].invoke
        /\ scenes[sc].lControllers[i].sdlEvent.serial = e.serial

\* The key-down controller of the keyboard is pending.
DownPending ==
    \E sc \in Scenes : \E i \in DOMAIN scenes[sc].lControllers :
        /\ scenes[sc].lControllers[i].uControllerID = kbd.uDown
        /\ scenes[sc].lControllers[i].invoke

\* C28 (as stated): once the key-down controller has been dispatched (it is
\* not pending), the handler bound to W on press has been invoked exactly
\* once for every polled key-down of W with repeat 0; it is never invoked
\* for one with repeat 1.
C28_Original ==
    Alive =>
      \A k \in DOMAIN keyLog :
         LET e == keyLog[k].ev
         IN /\ (e.sym = "W" /\ e.repeat = 0) =>
                  /\ HitsFor(e.serial) <= 1
                  /\ ~DownPending => HitsFor(e.serial) = 1
            /\ (e.sym = "W" /\ e.repeat = 1) => HitsFor(e.serial) = 0

\* C28 (amended): that holds for the key-downs that found the key-down
\* controller not pending; one polled while it was pending is dropped, and
\* the handler is never invoked for it, nor for a repeat or another key.
C28_AcceptedOnce ==
    \A k \in DOMAIN keyLog :
       LET e == keyLog[k].ev
           mine == e.sym = "W" /\ e.repeat = 0 /\ keyLog[k].accepted
       IN /\ HitsFor(e.serial) <= 1
          /\ (Alive /\ mine) => HitsFor(e.serial) = IF PendingWith(e) THEN 0 ELSE 1
          /\ ~mine => HitsFor(e.serial) = 0

C28_Witness ==
    /\ Alive
    /\ \E k \in DOMAIN keyLog :
          /\ keyLog[k].ev.sym = "W" /\ keyLog[k].ev.repeat = 0 /\ keyLog[k].accepted
          /\ HitsFor(keyLog[k].ev.serial) = 1
    /\ \E k \in DOMAIN keyLog :
          /\ keyLog[k].ev.sym = "W" /\ keyLog[k].ev.repeat = 1 /\ keyLog[k].accepted
          /\ ~PendingWith(keyLog[k].ev)
          /\ HitsFor(keyLog[k].ev.serial) = 0

(* ======================== properties: drawables ======================== *)
RectsSorted(ls) == \A i, j \in DOMAIN ls : i < j => ls[i].uPriority <= ls[j].uPriority

\* C29 (as stated): whatever drawables have been created, lRects of every
\* scene is in non-decreasing order of uPriority, the order in which
\* errEngineRenderHandle draws it.
C29_Original == \A sc \in Scenes : RectsSorted(scenes[sc].lRects)

\* The same for the scenes whose drawables all come from tInitRect.
C29_RectsOnlySorted ==
    \A sc \in Scenes :
       (\A i \in DOMAIN scenes[sc].lRects : scenes[sc].lRects[i].sTexturePath # "TEXTR")
          => RectsSorted(scenes[sc].lRects)

(* ===================== properties: collision test ====================== *)
\* C30: checkCollision gives the same answer for (a, b) and for (b, a).
C30_Symmetric == ovl.called => (ovl.ab = ovl.ba)

\* Two different labels were tested and overlap; so were two that do not.
C30_Witness ==
    /\ ovl.called /\ ovl.a # ovl.b
    /\ ovl.ab /\ ovl.ba
    /\ ovl.a.x + ovl.a.w > ovl.b.x /\ ovl.a.x < ovl.b.x /\ ovl.a.w # ovl.b.w

(* ==================== properties: combining forces ===================== *)
\* C31: after vAppendForce(main, incoming) returns, the speed stored in main
\* does not exceed main's dMaxSpeed, whatever the speeds and directions of
\* the two forces.
C31_SpeedWithinMax ==
    af.called => ~fgt(af.dSpeed, dbl(af.main.dMaxSpeed))
\* The combined speed was above the limit and was cut down to it.
C31_Witness ==
    /\ af.called
    /\ af.main.dSpeed > 0 /\ af.fwd.dSpeed > 0
    /\ dDotProd(af.main, af.fwd) = 1
    /\ Radicand(af.main, af.fwd) > af.main.dMaxSpeed * af.main.dMaxSpeed
    /\ af.main.dMaxSpeed > 0
    /\ af.dSpeed = dbl(af.main.dMaxSpeed)

(* ================= properties: the current-layer cursor ================ *)
\* C32 (as stated): while a layer's update function is executing, the
\* cursor uCurrentRunningLayerId resolves, through tRuntimeGetCurrentLayer,
\* to that same layer: when the function is entered and when it returns,
\* also after exhausted layers were removed earlier in the pass and after
\* layers were registered from inside update functions.
C32_Original ==
    \A k \in DOMAIN tick.layerLog :
        /\ tick.layerLog[k].curIn = tick.layerLog[k].sName
        /\ tick.layerLog[k].curOut = tick.layerLog[k].sName

(* ===================== properties: removed controllers ================= *)
\* C33 (as stated): once vSceneRemoveController has removed a controller
\* from its scene, its handler is not invoked again, also when a handler
\* removes its own controller or one not yet visited in that tick: no
\* dispatch invokes the handler of a node that is unlinked at that point,
\* and no controller fires in a tick that starts without it.
C33_Original ==
    /\ \A k \in DOMAIN tick.ctrlLog : tick.ctrlLog[k].fired => ~tick.ctrlLog[k].freed
    /\ \A k \in DOMAIN tick.ctrlLog :
          tick.ctrlLog[k].fired => HasCtrl(tick.ctrls0, tick.ctrlLog[k].id)

(* ============== properties: layers registered during a tick ============ *)
\* The layers of the scene the layer loop ran over that were not in its
\* list when the loop started.
RegisteredInTick ==
    IF tick.scL = NoScene THEN {}
    ELSE {n \in LayerNameSet :
            /\ HasLayer(scenes[tick.scL].lLayers, n)
            /\ ~HasLayer(tick.layers0, n)}

\* C34: a layer registered from inside an update function does not disturb
\* the tick: every layer that was in the sequence with a non-zero priority
\* when the layer loop started runs exactly once in it, no layer runs twice,
\* and the new layer does not run in that tick.
C34_RegistrationKeepsTick ==
    /\ \A i \in DOMAIN tick.layers0 :
          tick.layers0[i].iPriority # 0 => TimesRun(tick.layers0[i].sName) = 1
    /\ \A n \in LayerNameSet : TimesRun(n) <= 1
    /\ Alive => \A n \in RegisteredInTick : TimesRun(n) = 0

C34_Witness ==
    /\ Alive
    /\ RegisteredInTick # {}
    /\ Len(tick.layers0) >= 2
    /\ Len(tick.layerLog) = Len(tick.layers0)
    /\ tick.layers0[1].fRun \in {"addPos", "addNeg"}

(* =============== properties: a swap in the middle of a tick ============ *)
\* C35 (as stated): after vRuntimeSwapScene was called in the middle of an
\* update tick, the bookkeeping of the layer loop for the rest of the tick
\* is applied to the scene that owns the layer it is at: the cursor is
\* written into that scene, an exhausted layer is removed from that
\* scene's list, and so the list of the newly activated scene is not
\* changed on behalf of a layer of the previous scene.
C35_Original ==
    /\ \A k \in DOMAIN tick.layerLog :
          tick.layerLog[k].cursorScene = tick.layerLog[k].owner
    /\ \A k \in DOMAIN tick.unlinkLog :
          tick.unlinkLog[k].list = tick.unlinkLog[k].owner
    /\ \A sc \in Scenes : scenes[sc].iLayersSkew = 0

(* ===================== properties: the stored payload ================== *)
\* C36: while a controller is pending, polled events change neither its
\* flag nor its stored event; so a handler invoked because of input (one
\* that does not arm itself, of a polled type) is called with the first
\* event of its type polled since it was last called.
C36_FirstEventKept ==
    /\ \A k \in DOMAIN inLog :
          inLog[k].before =>
             /\ inLog[k].after
             /\ inLog[k].payloadAfter = inLog[k].payloadBefore
    /\ \A k \in DOMAIN tick.ctrlLog :
          LET e == tick.ctrlLog[k]
          IN (e.fired /\ e.type \in PolledTypes /\ e.hnd # "rearm") =>
                /\ e.first # NoEvent
                /\ e.payload = e.first
                /\ e.payload.type = e.type

\* A controller was called with the event that armed it although a later
\* event of its type had been polled before the call.
C36_Witness ==
    \E k \in DOMAIN tick.ctrlLog : \E j \in DOMAIN inLog :
        /\ tick.ctrlLog[k].fired /\ tick.ctrlLog[k].hnd # "rearm"
        /\ inLog[j].id = tick.ctrlLog[k].id
        /\ inLog[j].before /\ inLog[j].ev.type = inLog[j].type
        /\ inLog[j].ev.serial > tick.ctrlLog[k].payload.serial
        /\ tick.ctrlLog[k].payload = tick.ctrlLog[k].first
        /\ inLog[j].payloadAfter = tick.ctrlLog[k].payload

(* ================= properties: the box of the scanning body ============ *)
\* C38 (as stated): the box a DYNAMIC or STATIC body compares the other
\* labels with in the scan of a physics tick is its own label as that tick
\* has recomputed it from its rect, not the label the previous tick left.
C38_Original ==
    \A k \in DOMAIN tick.physLog :
       LET e == tick.physLog[k]
       IN (Solid(e.body) /\ HasLabel(e.cols, e.id)) => e.tCol = LabelOf(e.cols, e.id)

(* ==================== properties: the time accumulator ================= *)
\* C39: at the end of every main-loop iteration (and at every point of the
\* loop) the update ticks executed since the loop started times the step,
\* plus the debt, equal the clock time between the loop's start and the
\* iteration's time sample.  The clock reads 0 when the loop starts, and
\* tLast holds the latest sample.
C39_Conservation ==
    pc \in {"input", "update"} =>
        nTicks * FEATHER_MS_PER_UPDATE + tDelay = tLast - 0

\* An iteration has ended after two ticks with a rest of debt, and a
\* handler has taken clock time since the sample.
C39_Witness ==
    /\ pc = "input" /\ Count(iterLog, "render") = 1
    /\ nTicks >= 2 /\ tDelay = 5 /\ tLast = 25
    /\ now > tLast

(* ================= properties: swap, then remove oneself =============== *)
\* C40 (as stated): a controller whose handler swaps the scene and then
\* calls vSceneRemoveController(tRun->sScene, its own id) is afterwards in
\* no scene's list, and its handler runs at most once, also after its
\* scene has been swapped back in.
C40_Original ==
    Alive =>
       \A sc \in Scenes : \A i \in DOMAIN scenes[sc].lControllers :
          scenes[sc].lControllers[i].fHnd = "swap" =>
             fired[scenes[sc].lControllers[i].uControllerID] = 0

(* ================= properties: an armed controller fires =============== *)
\* The controller id is linked in the active scene while the loop runs.
LinkedActive(id) ==
    /\ pc \in {"input", "update"}
    /\ sScene # NoScene
    /\ HasCtrl(scenes[sScene].lControllers, id)
\* The room the bounded clock must leave: an update tick comes at most
\* FEATHER_MS_PER_UPDATE after a clock reading, and the clock is read as
\* long as its smallest step still fits under MaxTime.
LiveMargin == FEATHER_MS_PER_UPDATE + 5
\* The controller id is pending because an event of its type was polled,
\* its handler has been called n times so far, and the clock leaves room
\* for a tick after its delay has run out.
Waiting(id, n) ==
    /\ LinkedActive(id)
    /\ CtrlOf(sScene, id).invoke
    /\ CtrlOf(sScene, id).hFirst # NoEvent
    /\ fired[id] = n
    /\ now + LiveMargin <= MaxTime
    /\ CtrlOf(sScene, id).uControllerLastCalled + CtrlOf(sScene, id).uDelay
          + LiveMargin <= MaxTime
Served(id, n) == fired[id] > n \/ ~LinkedActive(id)

\* C37 (as stated): a pending controller is fired in the first update tick
\* that visits it with now >= last invocation + delay.
C37_Original ==
    \A k \in DOMAIN tick.ctrlLog :
        LET e == tick.ctrlLog[k]
        IN (e.pending /\ e.first # NoEvent /\ ~e.freed /\ e.t >= e.last + e.delay)
              => e.fired

\* In every tick a visited pending controller is fired exactly when
\* now > last invocation + delay.
FiredWhenDue ==
    \A k \in DOMAIN tick.ctrlLog :
        LET e == tick.ctrlLog[k]
        IN (e.pending /\ e.first # NoEvent /\ ~e.freed) =>
              (e.fired <=> e.t > e.last + e.delay)

\* C37 (amended): a controller armed by a polled event of its type, as long
\* as it stays linked in the active scene, is eventually invoked: in the
\* first later update tick with now > last invocation + delay (a tick at
\* now = last invocation + delay does not fire it).
C37_EventuallyFired ==
    /\ []FiredWhenDue
    /\ \A id \in CtrlIdSet : \A n \in 0..3 : Waiting(id, n) ~> Served(id, n)

\* The controller was armed by an event, a tick at now = last + delay left
\* it pending, and a later tick has fired it.
C37_Witness ==
    \E k \in DOMAIN tick.ctrlLog :
        /\ tick.ctrlLog[k].fired /\ tick.ctrlLog[k].first # NoEvent
        /\ tick.ctrlLog[k].delay > 0
        /\ tick.ctrlLog[k].prevFire >= 0
        /\ tick.ctrlLog[k].t > tick.ctrlLog[k].last + tick.ctrlLog[k].delay
        /\ tick.ctrlLog[k].first.serial >= 2

====
